---- MODULE Spec2Model ----
(***************************************************************************)
(* PromptHub: the prompt catalogue's query functions (lib/queries.js),     *)
(* the GET /api/prompts and GET /api/stats routes that call them, the Data *)
(* Store (PostgREST over one Postgres table) they read, the page in the    *)
(* browser that calls the routes, and the Notion extraction scripts.       *)
(*                                                                         *)
(* Specifications: Spec (one call at a time), SpecStats (GET /api/stats    *)
(* while rows are imported), SpecServer (requests served side by side),    *)
(* SpecPage and SpecPageFair (the page), SpecNotion and SpecNotionFair     *)
(* (a run of an extraction script).                                        *)
(*                                                                         *)
(* Strings are sequences of one-character strings, so that trimming,       *)
(* template interpolation and the Data Store's parsing of the filter text  *)
(* are computed character by character.  A JavaScript/SQL value that may   *)
(* be null is NULL or Some(value).                                         *)
(***************************************************************************)
EXTENDS Integers, Sequences, FiniteSets, TLC

NULL == [null |-> TRUE]
Some(s) == [val |-> s]

(***************************************************************************)
(* Bounds of the model.                                                    *)
(***************************************************************************)
MaxRows == 3
MaxLimit == 2
MaxOffset == 2
MaxInFlight == 2
MaxPages == 3
MaxBatch == 2

(***************************************************************************)
(* String helpers (String.prototype.trim, split; lower-casing).             *)
(***************************************************************************)
Whitespace == {" "}

RECURSIVE trimStart(_)
trimStart(s) ==
  IF s # <<>> /\ Head(s) \in Whitespace THEN trimStart(Tail(s)) ELSE s

RECURSIVE trimEnd(_)
trimEnd(s) ==
  IF s # <<>> /\ s[Len(s)] \in Whitespace
    THEN trimEnd(SubSeq(s, 1, Len(s) - 1))
    ELSE s

trim(s) == trimEnd(trimStart(s))

Lower(c) ==
  CASE c = "A" -> "a"
    [] c = "G" -> "g"
    [] OTHER -> c

ToLower(s) == [i \in 1..Len(s) |-> Lower(s[i])]

Letters == {"a", "c", "e", "g", "i", "o", "q", "r", "t", "x", "y", "z", "A", "G"}

\* Position of the first occurrence of character c in s, 0 when absent.
RECURSIVE IndexOf(_, _, _)
IndexOf(s, c, from) ==
  IF from > Len(s) THEN 0
  ELSE IF s[from] = c THEN from
  ELSE IndexOf(s, c, from + 1)

\* s.split(c): the pieces of s between occurrences of c.
RECURSIVE split(_, _)
split(s, c) ==
  LET i == IndexOf(s, c, 1) IN
  IF i = 0 THEN <<s>>
  ELSE <<SubSeq(s, 1, i - 1)>> \o split(SubSeq(s, i + 1, Len(s)), c)

Range(s) == {s[i] : i \in 1..Len(s)}

(***************************************************************************)
(* JavaScript numbers: Num(n) or NaN.                                      *)
(***************************************************************************)
NaN == [nan |-> TRUE]
Num(n) == [n |-> n]
plus(a, b) == IF a = NaN \/ b = NaN THEN NaN ELSE Num(a.n + b.n)
minus(a, b) == IF a = NaN \/ b = NaN THEN NaN ELSE Num(a.n - b.n)

Digits == {"0", "1", "2", "3", "4", "5", "6", "7", "8", "9"}
DigitVal(c) ==
  CASE c = "0" -> 0 [] c = "1" -> 1 [] c = "2" -> 2 [] c = "3" -> 3
    [] c = "4" -> 4 [] c = "5" -> 5 [] c = "6" -> 6 [] c = "7" -> 7
    [] c = "8" -> 8 [] c = "9" -> 9

\* The value of the longest prefix of digits of s, acc being the value so far.
RECURSIVE DigitsValue(_, _)
DigitsValue(s, acc) ==
  IF s = <<>> \/ Head(s) \notin Digits THEN acc
  ELSE DigitsValue(Tail(s), acc * 10 + DigitVal(Head(s)))

\* parseInt(s, 10): leading white space, an optional sign, then digits;
\* what follows the digits is ignored; no digit at all gives NaN.
parseInt(s) ==
  LET t == trimStart(s)
      neg == t # <<>> /\ Head(t) = "-"
      u == IF t # <<>> /\ Head(t) \in {"-", "+"} THEN Tail(t) ELSE t
  IN IF u = <<>> \/ Head(u) \notin Digits THEN NaN
     ELSE Num(IF neg THEN 0 - DigitsValue(u, 0) ELSE DigitsValue(u, 0))

(***************************************************************************)
(* The Data Store: table prompts and the rows the bulk import may load.    *)
(***************************************************************************)
S_ai == <<"a", "i">>
S_go == <<"g", "o">>
S_Ai == <<"A", "i">>
S_Go == <<"G", "o">>
S_ai_go == <<"a", "i", " ", "g", "o">>
S_Art == <<"A", "r", "t">>
S_art == <<"a", "r", "t">>
S_x == <<"x">>
S_y == <<"y">>
S_z == <<"z">>

\* Column names as they appear in filter text.
S_title == <<"t", "i", "t", "l", "e">>
S_content == <<"c", "o", "n", "t", "e", "n", "t">>
S_category == <<"c", "a", "t", "e", "g", "o", "r", "y">>
S_tags == <<"t", "a", "g", "s">>
S_id == <<"i", "d">>
S_created_at == <<"c", "r", "e", "a", "t", "e", "d", "_", "a", "t">>
\* Operator names of the filter grammar.
S_fts == <<"f", "t", "s">>
S_ilike == <<"i", "l", "i", "k", "e">>
S_eq == <<"e", "q">>

\* Rows of the import file: title, content, category, tags, created_at
\* (every column but created_at may be null; id is assigned on insert).
ImportRows == {
  [title |-> Some(S_Ai), content |-> Some(S_go), category |-> Some(S_Art),
   tags |-> Some(<<S_x, S_y, S_z>>), created_at |-> 3],
  [title |-> Some(S_Go), content |-> Some(S_ai), category |-> Some(S_art),
   tags |-> Some(<<S_x>>), created_at |-> 2],
  [title |-> Some(S_Go), content |-> Some(S_go), category |-> Some(S_Art),
   tags |-> Some(<<S_x, S_y>>), created_at |-> 2],
  [title |-> Some(S_ai_go), content |-> Some(S_go), category |-> Some(S_Art),
   tags |-> Some(<<S_x, S_z>>), created_at |-> 1],
  [title |-> NULL, content |-> NULL, category |-> NULL,
   tags |-> NULL, created_at |-> 4] }

\* INSERT: id SERIAL takes the next value of the sequence.
InsertRow(tbl, r) ==
  Append(tbl, [id |-> Len(tbl) + 1, title |-> r.title, content |-> r.content,
               category |-> r.category, tags |-> r.tags,
               created_at |-> r.created_at])

(***************************************************************************)
(* Postgres operators the filters compile to.                              *)
(***************************************************************************)
\* The words of a text: maximal runs of letters, lower-cased
\* (to_tsvector / to_tsquery tokenisation; stemming and stop words are not
\* modelled, the texts of ImportRows have none).
RECURSIVE Words(_, _)
Words(s, cur) ==
  IF s = <<>> THEN (IF cur = <<>> THEN {} ELSE {cur})
  ELSE IF Head(s) \in Letters THEN Words(Tail(s), Append(cur, Lower(Head(s))))
  ELSE (IF cur = <<>> THEN {} ELSE {cur}) \cup Words(Tail(s), <<>>)

to_tsvector(text) == Words(text, <<>>)

\* to_tsquery(v): operands must be joined by operators; two words separated
\* only by white space are a syntax error.  NULL is the error.
to_tsquery(v) ==
  IF \E i \in 1..Len(trim(v)) : trim(v)[i] \in Whitespace
    THEN NULL
    ELSE Some(Words(v, <<>>))

\* text ILIKE/LIKE pattern on already lower-cased operands:
\* % matches any run of characters, _ any one character.
RECURSIVE Like(_, _)
Like(t, p) ==
  IF p = <<>> THEN t = <<>>
  ELSE IF Head(p) = "%" THEN Like(t, Tail(p)) \/ (t # <<>> /\ Like(Tail(t), p))
  ELSE IF t = <<>> THEN FALSE
  ELSE (Head(p) = "_" \/ Head(p) = Head(t)) /\ Like(Tail(t), Tail(p))

\* PostgREST turns * into % in like/ilike patterns.
LikePattern(v) == [i \in 1..Len(v) |-> IF v[i] = "*" THEN "%" ELSE v[i]]

TextColumns == {S_title, S_content, S_category}
Columns == TextColumns \cup {S_tags, S_id, S_created_at}

TextColumn(row, f) ==
  CASE f = S_title -> row.title
    [] f = S_content -> row.content
    [] f = S_category -> row.category

(***************************************************************************)
(* PostgREST: the request searchPrompts builds is a set of URL parameters; *)
(* the server parses the filter texts and runs one SELECT.                 *)
(***************************************************************************)
\* One condition "column.operator.value" of a logic tree; the value is the
\* rest of the text and may itself contain periods.  NULL: parse error.
ParseCondition(piece) ==
  LET i == IndexOf(piece, ".", 1)
      j == IF i = 0 THEN 0 ELSE IndexOf(piece, ".", i + 1)
  IN IF i <= 1 \/ j = 0 THEN NULL
     ELSE LET col == SubSeq(piece, 1, i - 1)
              op == SubSeq(piece, i + 1, j - 1)
              val == SubSeq(piece, j + 1, Len(piece))
          IN IF op \in {S_fts, S_ilike, S_eq}
               THEN Some([col |-> col, op |-> op, val |-> val])
               ELSE NULL

\* The text inside or=( ... ): conditions separated by commas.  A value runs
\* up to the next comma or closing parenthesis, so a closing parenthesis
\* inside the text ends the group early and what follows is a parse error.
\* NULL: the request is rejected (400).
ParseLogicTree(text) ==
  IF ")" \in Range(text) THEN NULL
  ELSE LET pieces == split(text, ",")
           conds == [k \in 1..Len(pieces) |-> ParseCondition(pieces[k])]
       IN IF \E k \in 1..Len(conds) : conds[k] = NULL
            THEN NULL
            ELSE Some([k \in 1..Len(conds) |-> conds[k].val])

\* A condition the database can run: the column exists and the operator
\* applies to its type, and a full-text query parses.
ConditionRuns(c) ==
  /\ c.col \in Columns
  /\ c.col \in TextColumns
  /\ c.op = S_fts => to_tsquery(c.val) # NULL

\* column <op> value on one row; a null column satisfies no condition.
ConditionHolds(row, c) ==
  LET v == TextColumn(row, c.col) IN
  /\ v # NULL
  /\ CASE c.op = S_fts ->
            to_tsquery(c.val).val # {}
            /\ to_tsquery(c.val).val \subseteq to_tsvector(v.val)
       [] c.op = S_ilike -> Like(ToLower(v.val), ToLower(LikePattern(c.val)))
       [] c.op = S_eq -> v.val = c.val

\* ORDER BY created_at ASC|DESC: rows of equal created_at keep the table's
\* order.
RECURSIVE InsertOrdered(_, _, _)
InsertOrdered(sorted, r, ascending) ==
  IF sorted = <<>> THEN <<r>>
  ELSE IF (IF ascending THEN Head(sorted).created_at <= r.created_at
           ELSE Head(sorted).created_at >= r.created_at)
    THEN <<Head(sorted)>> \o InsertOrdered(Tail(sorted), r, ascending)
    ELSE <<r>> \o sorted

RECURSIVE OrderByCreatedAt(_, _)
OrderByCreatedAt(rows, ascending) ==
  IF rows = <<>> THEN <<>>
  ELSE InsertOrdered(OrderByCreatedAt(SubSeq(rows, 1, Len(rows) - 1), ascending),
                     rows[Len(rows)], ascending)

RECURSIVE Where(_, _)
Where(rows, keep) ==
  IF rows = <<>> THEN <<>>
  ELSE (IF keep[Head(rows).id] THEN <<Head(rows)>> ELSE <<>>)
         \o Where(Tail(rows), keep)

\* OFFSET o LIMIT l
OffsetLimit(rows, o, l) ==
  SubSeq(rows, o + 1, IF o + l < Len(rows) THEN o + l ELSE Len(rows))

\* column=<op>.<value> on one row, for the operators of the horizontal
\* filters used here; a null column satisfies none.
CategoryHolds(row, f) ==
  /\ row.category # NULL
  /\ CASE f.op = "eq" -> row.category.val = f.val
       [] f.op = "ilike" ->
            Like(ToLower(row.category.val), ToLower(LikePattern(f.val)))

\* tags=cs.{...} (contains) and tags=ov.{...} (overlaps) on one row.
TagsHold(row, f) ==
  /\ row.tags # NULL
  /\ CASE f.op = "cs" -> Range(f.val) \subseteq Range(row.tags.val)
       [] f.op = "ov" -> Range(f.val) \cap Range(row.tags.val) # {}

\* The reply of PostgREST to a request on table tbl:
\* {data, error, count} as the client library hands it to the caller.
Execute(tbl, rq) ==
  LET tree == IF rq.or = NULL THEN Some(<<>>) ELSE ParseLogicTree(rq.or.val)
      Bad == \/ tree = NULL
             \/ \E k \in 1..Len(tree.val) : ~ConditionRuns(tree.val[k])
             \/ rq.offset = NaN \/ rq.limit = NaN
             \/ rq.offset.n < 0 \/ rq.limit.n < 0
      keep == [id \in 1..Len(tbl) |->
                 /\ rq.or # NULL =>
                      \E k \in 1..Len(tree.val) : ConditionHolds(tbl[id], tree.val[k])
                 /\ rq.category # NULL => CategoryHolds(tbl[id], rq.category.val)
                 /\ rq.tags # NULL => TagsHold(tbl[id], rq.tags.val)]
      sorted == IF rq.order = NULL THEN Where(tbl, keep)
                ELSE OrderByCreatedAt(Where(tbl, keep), rq.order.val.ascending)
  IN IF Bad THEN [data |-> NULL, error |-> Some("400"), count |-> NULL]
     ELSE [data |-> Some(OffsetLimit(sorted, rq.offset.n, rq.limit.n)),
           error |-> NULL, count |-> NULL]

(***************************************************************************)
(* lib/queries.js: searchPrompts.                                          *)
(***************************************************************************)
S_content_fts == <<"c", "o", "n", "t", "e", "n", "t", ".", "f", "t", "s", ".">>
S_title_ilike == <<",", "t", "i", "t", "l", "e", ".", "i", "l", "i", "k", "e", ".", "%">>

\* Variant: the order is requested ascending.
selectAscending ==
  [order |-> Some([column |-> S_created_at, ascending |-> TRUE]),
   or |-> NULL, category |-> NULL, tags |-> NULL,
   offset |-> Num(0), limit |-> Num(0)]

\* supabase.from('prompts').select('*').order('created_at', {ascending: false})
selectOrdered ==
  [order |-> Some([column |-> S_created_at, ascending |-> FALSE]),
   or |-> NULL, category |-> NULL, tags |-> NULL,
   offset |-> Num(0), limit |-> Num(0)]

\* Variant: the test is `if (query)`, a blank query is not skipped.
withTextUnlessEmpty(rq, query) ==
  IF query # <<>>
    THEN [rq EXCEPT !.or = Some(S_content_fts \o trim(query)
                                \o S_title_ilike \o trim(query) \o <<"%">>)]
    ELSE rq

\* if (query && query.trim() !== '') dbQuery = dbQuery.or(`...`)
withText(rq, query) ==
  IF query # <<>> /\ trim(query) # <<>>
    THEN [rq EXCEPT !.or = Some(S_content_fts \o trim(query)
                                \o S_title_ilike \o trim(query) \o <<"%">>)]
    ELSE rq

\* Variant: the category is matched with ilike instead of eq.
withCategoryIlike(rq, category) ==
  IF category # NULL /\ category.val # <<>> /\ trim(category.val) # <<>>
    THEN [rq EXCEPT !.category = Some([op |-> "ilike", val |-> trim(category.val)])]
    ELSE rq

\* if (category && category.trim() !== '') dbQuery = dbQuery.eq(...)
withCategory(rq, category) ==
  IF category # NULL /\ category.val # <<>> /\ trim(category.val) # <<>>
    THEN [rq EXCEPT !.category = Some([op |-> "eq", val |-> trim(category.val)])]
    ELSE rq

\* Variant: the tags are matched with overlaps instead of contains.
withTagsOverlapping(rq, tags) ==
  IF Len(tags) > 0
    THEN [rq EXCEPT !.tags = Some([op |-> "ov", val |-> tags])]
    ELSE rq

\* if (tags && tags.length > 0) dbQuery = dbQuery.contains('tags', tags)
withTags(rq, tags) ==
  IF Len(tags) > 0
    THEN [rq EXCEPT !.tags = Some([op |-> "cs", val |-> tags])]
    ELSE rq

\* .range(from, to) of the client library: offset = from, limit = to - from + 1.
range(rq, from, to) ==
  [rq EXCEPT !.offset = from, !.limit = plus(minus(to, from), Num(1))]

\* Variant: the last position is offset + limit.
withPageOneMore(rq, offset, limit) ==
  range(rq, offset, plus(offset, limit))

\* dbQuery.range(offset, offset + limit - 1)
withPage(rq, offset, limit) ==
  range(rq, offset, minus(plus(offset, limit), Num(1)))

\* The request searchPrompts has built when it awaits dbQuery.
dbQuery(a) ==
  withPage(withTags(withCategory(withText(selectOrdered, a.query), a.category),
                    a.tags),
           a.offset, a.limit)

\* searchPrompts(): the parameter defaults to {}, an object without any
\* property.
NoArguments == [property \in {} |-> NULL]

\* The destructuring of the parameter: a property the object does not have
\* takes its default (query = '', category = null, tags = [], limit = 50,
\* offset = 0).
searchPromptsParameters(given) ==
  [query |-> IF "query" \in DOMAIN given THEN given.query ELSE <<>>,
   category |-> IF "category" \in DOMAIN given THEN given.category ELSE NULL,
   tags |-> IF "tags" \in DOMAIN given THEN given.tags ELSE <<>>,
   limit |-> IF "limit" \in DOMAIN given THEN given.limit ELSE Num(50),
   offset |-> IF "offset" \in DOMAIN given THEN given.offset ELSE Num(0)]

\* Variant: the matches are counted by a request of their own first.
searchPromptsCountsFirst(a) ==
  <<[count |-> "exact", head |-> TRUE], dbQuery(a)>>

\* The requests one call of searchPrompts awaits, in order: the query is
\* built without a round trip and awaited once.
searchPromptsAwaits(a) == <<dbQuery(a)>>

\* Variant: the catch block rethrows.
searchPromptsRethrows(reply) ==
  IF reply.thrown THEN [threw |-> TRUE, value |-> <<>>]
  ELSE IF reply.error # NULL THEN [threw |-> FALSE, value |-> <<>>]
  ELSE [threw |-> FALSE,
        value |-> IF reply.data # NULL THEN reply.data.val ELSE <<>>]

\* Variant: an error value is thrown on to the caller.
searchPromptsThrowsError(reply) ==
  IF reply.thrown THEN [threw |-> FALSE, value |-> <<>>]
  ELSE IF reply.error # NULL THEN [threw |-> TRUE, value |-> <<>>]
  ELSE [threw |-> FALSE,
        value |-> IF reply.data # NULL THEN reply.data.val ELSE <<>>]

\* What searchPrompts does with the outcome of the await: the reply
\* {data, error} of the client, or an exception (thrown).
searchPromptsReturn(reply) ==
  IF reply.thrown THEN [threw |-> FALSE, value |-> <<>>]
  ELSE IF reply.error # NULL THEN [threw |-> FALSE, value |-> <<>>]
  ELSE [threw |-> FALSE,
        value |-> IF reply.data # NULL THEN reply.data.val ELSE <<>>]

\* Variant: the number of rows of data is returned (there is none with head).
getPromptCountOfData(reply) ==
  IF reply.thrown THEN [threw |-> FALSE, value |-> 0]
  ELSE IF reply.error # NULL THEN [threw |-> FALSE, value |-> 0]
  ELSE [threw |-> FALSE,
        value |-> IF reply.data # NULL THEN Len(reply.data.val) ELSE 0]

\* Variant: the catch block rethrows.
getPromptCountRethrows(reply) ==
  IF reply.thrown THEN [threw |-> TRUE, value |-> 0]
  ELSE IF reply.error # NULL THEN [threw |-> FALSE, value |-> 0]
  ELSE [threw |-> FALSE,
        value |-> IF reply.count # NULL THEN reply.count.val ELSE 0]

\* What getPromptCount does with the outcome of its await.
getPromptCountReturn(reply) ==
  IF reply.thrown THEN [threw |-> FALSE, value |-> 0]
  ELSE IF reply.error # NULL THEN [threw |-> FALSE, value |-> 0]
  ELSE [threw |-> FALSE,
        value |-> IF reply.count # NULL THEN reply.count.val ELSE 0]

\* Variant: the count is taken over a column, rows without it are left out.
ExecuteCountOfCategories(tbl) ==
  [data |-> NULL, error |-> NULL,
   count |-> Some(Cardinality({i \in 1..Len(tbl) : tbl[i].category # NULL}))]

\* select('*', {count: 'exact', head: true}): the number of rows, no row.
ExecuteCount(tbl) == [data |-> NULL, error |-> NULL, count |-> Some(Len(tbl))]

(***************************************************************************)
(* lib/queries.js: getPromptById, getCategories, getTags.                  *)
(***************************************************************************)
\* The UTF-16 code unit of a character of the texts of ImportRows.
CharCode(c) ==
  CASE c = " " -> 32 [] c = "A" -> 65 [] c = "G" -> 71 [] c = "a" -> 97
    [] c = "g" -> 103 [] c = "i" -> 105 [] c = "o" -> 111 [] c = "r" -> 114
    [] c = "t" -> 116 [] c = "x" -> 120 [] c = "y" -> 121 [] c = "z" -> 122

\* a < b for two strings: the comparison Array.prototype.sort() makes
\* without a compare function (code unit by code unit, a prefix first).
RECURSIVE StringLess(_, _)
StringLess(a, b) ==
  IF b = <<>> THEN FALSE
  ELSE IF a = <<>> THEN TRUE
  ELSE IF Head(a) # Head(b) THEN CharCode(Head(a)) < CharCode(Head(b))
  ELSE StringLess(Tail(a), Tail(b))

\* One step of the sort: s takes its place in the sorted array.
RECURSIVE SortInsert(_, _)
SortInsert(sorted, s) ==
  IF sorted = <<>> THEN <<s>>
  ELSE IF StringLess(s, Head(sorted)) THEN <<s>> \o sorted
  ELSE <<Head(sorted)>> \o SortInsert(Tail(sorted), s)

\* array.sort() on an array of strings.
RECURSIVE sort(_)
sort(array) ==
  IF array = <<>> THEN <<>>
  ELSE SortInsert(sort(SubSeq(array, 1, Len(array) - 1)), array[Len(array)])

\* [...new Set(array)]: the first occurrence of every value, in order.
RECURSIVE unique(_)
unique(array) ==
  IF array = <<>> THEN <<>>
  ELSE LET before == unique(SubSeq(array, 1, Len(array) - 1))
           last == array[Len(array)]
       IN IF last \in Range(before) THEN before ELSE Append(before, last)

\* data.flatMap(item => item.tags || [])
RECURSIVE flatMapTags(_)
flatMapTags(data) ==
  IF data = <<>> THEN <<>>
  ELSE (IF Head(data).tags = NULL THEN <<>> ELSE Head(data).tags.val)
         \o flatMapTags(Tail(data))

\* .select(column).not(column, 'is', null)
selectNotNull(column) == [select |-> column, notNull |-> column]

\* The reply to selectNotNull: one item per row whose column is not null,
\* holding that column alone, in the order of the table.
ExecuteColumn(tbl, rq) ==
  LET keep == [id \in 1..Len(tbl) |->
                 IF rq.notNull = "category" THEN tbl[id].category # NULL
                 ELSE tbl[id].tags # NULL]
      rows == Where(tbl, keep)
  IN [data |-> Some([i \in 1..Len(rows) |->
                       IF rq.select = "category"
                         THEN [category |-> rows[i].category]
                         ELSE [tags |-> rows[i].tags]]),
      error |-> NULL, count |-> NULL]

\* Variant: the unique categories are returned as they came.
getCategoriesUnsorted(reply) ==
  IF reply.thrown THEN [threw |-> FALSE, value |-> <<>>]
  ELSE IF reply.error # NULL THEN [threw |-> FALSE, value |-> <<>>]
  ELSE IF reply.data = NULL THEN [threw |-> FALSE, value |-> <<>>]
  ELSE [threw |-> FALSE,
        value |-> unique([i \in 1..Len(reply.data.val) |->
                            reply.data.val[i].category.val])]

\* What getCategories does with the outcome of its await; data.map on a
\* reply without data throws inside the try block.
getCategoriesReturn(reply) ==
  IF reply.thrown THEN [threw |-> FALSE, value |-> <<>>]
  ELSE IF reply.error # NULL THEN [threw |-> FALSE, value |-> <<>>]
  ELSE IF reply.data = NULL THEN [threw |-> FALSE, value |-> <<>>]
  ELSE [threw |-> FALSE,
        value |-> sort(unique([i \in 1..Len(reply.data.val) |->
                                 reply.data.val[i].category.val]))]

\* Variant: the flattened tags are sorted without the Set.
getTagsWithRepeats(reply) ==
  IF reply.thrown THEN [threw |-> FALSE, value |-> <<>>]
  ELSE IF reply.error # NULL THEN [threw |-> FALSE, value |-> <<>>]
  ELSE IF reply.data = NULL THEN [threw |-> FALSE, value |-> <<>>]
  ELSE [threw |-> FALSE, value |-> sort(flatMapTags(reply.data.val))]

\* What getTags does with the outcome of its await.
getTagsReturn(reply) ==
  IF reply.thrown THEN [threw |-> FALSE, value |-> <<>>]
  ELSE IF reply.error # NULL THEN [threw |-> FALSE, value |-> <<>>]
  ELSE IF reply.data = NULL THEN [threw |-> FALSE, value |-> <<>>]
  ELSE [threw |-> FALSE, value |-> sort(unique(flatMapTags(reply.data.val)))]

\* .select('*').eq('id', id).single()
selectSingle(id) == [select |-> "*", eq |-> [column |-> "id", value |-> id],
                     single |-> TRUE]

\* The reply to selectSingle: the row when exactly one row has the id,
\* an error (PGRST116) otherwise.
ExecuteSingle(tbl, rq) ==
  LET rows == Where(tbl, [id \in 1..Len(tbl) |-> tbl[id].id = rq.eq.value])
  IN IF Len(rows) = 1
       THEN [data |-> Some(rows[1]), error |-> NULL, count |-> NULL]
       ELSE [data |-> NULL, error |-> Some("PGRST116"), count |-> NULL]

\* Variant: the error value is returned to the caller.
getPromptByIdReturnsError(reply) ==
  IF reply.thrown THEN [threw |-> FALSE, value |-> NULL]
  ELSE IF reply.error # NULL THEN [threw |-> FALSE, value |-> reply.error]
  ELSE [threw |-> FALSE, value |-> reply.data]

\* What getPromptById does with the outcome of its await.
getPromptByIdReturn(reply) ==
  IF reply.thrown THEN [threw |-> FALSE, value |-> NULL]
  ELSE IF reply.error # NULL THEN [threw |-> FALSE, value |-> NULL]
  ELSE [threw |-> FALSE, value |-> reply.data]

(***************************************************************************)
(* lib/db.js: testConnection.                                              *)
(***************************************************************************)
\* .select('id').limit(1)
selectIdLimit == [select |-> "id", limit |-> 1]

\* The reply to selectIdLimit: the id of the first rows, rq.limit at most.
ExecuteIds(tbl, rq) ==
  LET n == IF Len(tbl) < rq.limit THEN Len(tbl) ELSE rq.limit
  IN [data |-> Some([i \in 1..n |-> [id |-> tbl[i].id]]),
      error |-> NULL, count |-> NULL]

\* What testConnection does with the outcome of its await.
testConnectionReturn(reply) ==
  IF reply.thrown THEN [threw |-> FALSE, value |-> FALSE]
  ELSE IF reply.error # NULL THEN [threw |-> FALSE, value |-> FALSE]
  ELSE [threw |-> FALSE, value |-> TRUE]

(***************************************************************************)
(* app/api/prompts/route.js: GET.                                          *)
(***************************************************************************)
S_50 == <<"5", "0">>
S_0 == <<"0">>

\* v || d for a string-or-null v: null and '' are falsy.
OrElse(v, d) == IF v = NULL \/ v.val = <<>> THEN d ELSE v.val

\* Variant: the pieces are trimmed, the empty ones are kept.
RECURSIVE TrimOnly(_)
TrimOnly(parts) ==
  IF parts = <<>> THEN <<>>
  ELSE <<trim(Head(parts))>> \o TrimOnly(Tail(parts))

\* tagsParam.split(',').map(tag => tag.trim()).filter(Boolean)
RECURSIVE TrimAndDropEmpty(_)
TrimAndDropEmpty(parts) ==
  IF parts = <<>> THEN <<>>
  ELSE (IF trim(Head(parts)) = <<>> THEN <<>> ELSE <<trim(Head(parts))>>)
         \o TrimAndDropEmpty(Tail(parts))

\* Variant: the defaults are taken with ?? and an empty parameter is kept.
ParseParamsNullish(params) ==
  [query |-> IF params.query = NULL THEN <<>> ELSE params.query.val,
   category |-> params.category,
   tags |-> IF params.tags = NULL \/ params.tags.val = <<>> THEN <<>>
            ELSE TrimAndDropEmpty(split(params.tags.val, ",")),
   limit |-> parseInt(IF params.limit = NULL THEN S_50 ELSE params.limit.val),
   offset |-> parseInt(IF params.offset = NULL THEN S_0 ELSE params.offset.val)]

\* Variant: limit is kept within 1..100 and offset at 0 or more, and a
\* value that is not a number takes the default.
ParseParamsClamped(params) ==
  LET limit == parseInt(OrElse(params.limit, S_50))
      offset == parseInt(OrElse(params.offset, S_0))
  IN [query |-> OrElse(params.query, <<>>),
      category |-> IF params.category = NULL \/ params.category.val = <<>>
                     THEN NULL ELSE params.category,
      tags |-> IF params.tags = NULL \/ params.tags.val = <<>> THEN <<>>
               ELSE TrimAndDropEmpty(split(params.tags.val, ",")),
      limit |-> IF limit = NaN THEN Num(50)
                ELSE IF limit.n < 1 THEN Num(1)
                ELSE IF limit.n > 100 THEN Num(100) ELSE limit,
      offset |-> IF offset = NaN \/ offset.n < 0 THEN Num(0) ELSE offset]

\* The criteria GET parses from the URL's search parameters; a parameter
\* that is absent reads as NULL.
ParseParams(params) ==
  [query |-> OrElse(params.query, <<>>),
   category |-> IF params.category = NULL \/ params.category.val = <<>>
                  THEN NULL ELSE params.category,
   tags |-> IF params.tags = NULL \/ params.tags.val = <<>> THEN <<>>
            ELSE TrimAndDropEmpty(split(params.tags.val, ",")),
   limit |-> parseInt(OrElse(params.limit, S_50)),
   offset |-> parseInt(OrElse(params.offset, S_0))]

\* A number in the JSON text of a response body: JSON has no NaN, it is
\* written as null.
jsonNumber(v) == IF v = NaN THEN NULL ELSE v

\* The response of the catch block of GET.
GETpromptsCatch ==
  [status |-> 500,
   body |-> [error |-> "Failed to fetch prompts", prompts |-> <<>>]]

\* Variant: count is the size of the page that was asked for.
GETpromptsCountsLimit(parsed, res) ==
  IF res.threw
    THEN GETpromptsCatch
    ELSE [status |-> 200,
          body |-> [prompts |-> res.value,
                    count |-> IF parsed.limit = NaN THEN 0 ELSE parsed.limit.n,
                    query |-> [parsed EXCEPT !.limit = jsonNumber(@),
                                             !.offset = jsonNumber(@)]]]

\* The response of GET once searchPrompts has settled with outcome res.
GETpromptsResponse(parsed, res) ==
  IF res.threw
    THEN GETpromptsCatch
    ELSE [status |-> 200,
          body |-> [prompts |-> res.value, count |-> Len(res.value),
                    query |-> [parsed EXCEPT !.limit = jsonNumber(@),
                                             !.offset = jsonNumber(@)]]]

(***************************************************************************)
(* app/api/stats/route.js: GET.                                            *)
(***************************************************************************)
\* The query functions GET /api/stats calls inside Promise.all.
StatsCalls == {"getPromptCount", "getCategories", "getTags"}

\* Variant: the catch block answers with the error message alone.
GETstatsCatchBare ==
  [status |-> 500, body |-> [error |-> "Failed to fetch statistics"]]

\* The response of the catch block of GET /api/stats.
GETstatsCatch ==
  [status |-> 500,
   body |-> [error |-> "Failed to fetch statistics",
             total |-> 0, categories |-> 0, tags |-> 0]]

\* Promise.all has settled: it rejects when a call that has settled threw,
\* and fulfils when all three have returned.
Rejected(calls) ==
  \E f \in StatsCalls : calls[f].outcome # "none" /\ calls[f].result.threw

Fulfilled(calls) ==
  \A f \in StatsCalls : calls[f].outcome # "none" /\ ~calls[f].result.threw

\* Variant: the two counts are taken from each other's list.
GETstatsCountsSwapped(calls) ==
  IF Rejected(calls)
    THEN GETstatsCatch
    ELSE [status |-> 200,
          body |-> [total |-> calls["getPromptCount"].result.value,
                    categories |-> Len(calls["getTags"].result.value),
                    tags |-> Len(calls["getCategories"].result.value),
                    categoriesList |-> calls["getCategories"].result.value,
                    tagsList |-> calls["getTags"].result.value]]

\* The response of GET /api/stats once Promise.all has settled.
GETstatsResponse(calls) ==
  IF Rejected(calls)
    THEN GETstatsCatch
    ELSE [status |-> 200,
          body |-> [total |-> calls["getPromptCount"].result.value,
                    categories |-> Len(calls["getCategories"].result.value),
                    tags |-> Len(calls["getTags"].result.value),
                    categoriesList |-> calls["getCategories"].result.value,
                    tagsList |-> calls["getTags"].result.value]]

(***************************************************************************)
(* app/page.js, components/SearchBar.js, components/PromptList.js:         *)
(* the page.                                                               *)
(***************************************************************************)
\* URLSearchParams.toString(): a space is written as +; the letters of the
\* texts typed here are written as they are.
RECURSIVE formEncode(_)
formEncode(text) ==
  IF text = <<>> THEN <<>>
  ELSE <<IF Head(text) = " " THEN "+" ELSE Head(text)>> \o formEncode(Tail(text))

\* new URL(request.url).searchParams: + is read as a space.
RECURSIVE formDecode(_)
formDecode(text) ==
  IF text = <<>> THEN <<>>
  ELSE <<IF Head(text) = "+" THEN " " ELSE Head(text)>> \o formDecode(Tail(text))

\* The query string fetchPrompts(searchParams) builds: query and category
\* ('' when the property is missing or empty), limit 50 and offset 0 (the
\* search bar passes neither), and no tags parameter.
queryParams(searchParams) ==
  [query |-> formEncode(IF "query" \in DOMAIN searchParams
                          THEN searchParams.query ELSE <<>>),
   category |-> formEncode(IF "category" \in DOMAIN searchParams
                             THEN searchParams.category ELSE <<>>),
   limit |-> S_50,
   offset |-> S_0]

\* The search parameters GET /api/prompts reads from that query string.
searchParamsOf(url) ==
  [query |-> Some(formDecode(url.query)),
   category |-> Some(formDecode(url.category)),
   tags |-> NULL,
   limit |-> Some(url.limit),
   offset |-> Some(url.offset)]

\* The response of GET /api/prompts to search parameters params on table
\* tbl, when the Data Store answers ("answered") or fails ("error"), and
\* when the handler itself fails ("handler threw").
GETpromptsOn(tbl, params, how) ==
  LET parsed == ParseParams(params)
      reply == IF how = "answered"
                 THEN [thrown |-> FALSE]
                        @@ Execute(tbl, dbQuery(searchPromptsParameters(parsed)))
                 ELSE [thrown |-> FALSE, data |-> NULL, error |-> Some("503"),
                       count |-> NULL]
  IN IF how = "handler threw" THEN GETpromptsCatch
     ELSE GETpromptsResponse(parsed, searchPromptsReturn(reply))

\* The response of GET /api/prompts to the query string of the page.
ServerResponse(tbl, url, how) == GETpromptsOn(tbl, searchParamsOf(url), how)

\* Variant: the flag is left as it is when the call starts.
startFetchSilently(pg, searchParams) ==
  [pg EXCEPT !.fetches =
     Append([i \in 1..Len(pg.fetches) |-> [pg.fetches[i] EXCEPT !.newest = FALSE]],
            [url |-> queryParams(searchParams), stage |-> "fetch",
             newest |-> TRUE])]

\* fetchPrompts(searchParams) up to await fetch(...): setLoading(true), and
\* the request is on its way. The call is the newest of those in flight.
startFetch(pg, searchParams) ==
  [pg EXCEPT !.loading = TRUE,
             !.fetches =
     Append([i \in 1..Len(pg.fetches) |-> [pg.fetches[i] EXCEPT !.newest = FALSE]],
            [url |-> queryParams(searchParams), stage |-> "fetch",
             newest |-> TRUE])]

\* The calls in flight without call i.
Without(fetches, i) ==
  SubSeq(fetches, 1, i - 1) \o SubSeq(fetches, i + 1, Len(fetches))

\* Variant: the catch block leaves the list as it is.
fetchPromptsCatchKeeps(pg, i, path) ==
  [pg EXCEPT !.loading = FALSE,
             !.fetches = Without(pg.fetches, i),
             !.last = [path |-> path, newest |-> pg.fetches[i].newest]]

\* fetchPrompts, catch and finally: setPrompts([]), setLoading(false).
fetchPromptsCatch(pg, i, path) ==
  [pg EXCEPT !.prompts = <<>>,
             !.loading = FALSE,
             !.fetches = Without(pg.fetches, i),
             !.last = [path |-> path, newest |-> pg.fetches[i].newest]]

\* fetchPrompts after await response.json() gave body:
\* setPrompts(data.prompts || []), then finally: setLoading(false).
fetchPromptsThen(pg, i, path, body) ==
  [pg EXCEPT !.prompts = IF "prompts" \in DOMAIN body THEN body.prompts
                         ELSE <<>>,
             !.loading = FALSE,
             !.fetches = Without(pg.fetches, i),
             !.last = [path |-> path, newest |-> pg.fetches[i].newest]]

\* What PromptList renders for its two properties.
PromptList(prompts, loading) ==
  IF loading THEN "Loading prompts..."
  ELSE IF Len(prompts) = 0 THEN "No prompts found"
  ELSE "Found"

(***************************************************************************)
(* lib/db.js and the two routes: requests served side by side.             *)
(***************************************************************************)
\* The reply of a failed round trip.
ErrorReply ==
  [thrown |-> FALSE, data |-> NULL, error |-> Some("503"), count |-> NULL]

\* The reply to the request of query function f of GET /api/stats on table
\* tbl, when the Data Store answers or fails.
StatsReply(tbl, f, how) ==
  IF how = "error" THEN ErrorReply
  ELSE [thrown |-> FALSE] @@
       (IF f = "getPromptCount" THEN ExecuteCount(tbl)
        ELSE ExecuteColumn(tbl, IF f = "getCategories"
                                  THEN selectNotNull("category")
                                  ELSE selectNotNull("tags")))

\* What query function f of GET /api/stats returns on that reply.
StatsReturn(f, rep) ==
  CASE f = "getPromptCount" -> getPromptCountReturn(rep)
    [] f = "getCategories" -> getCategoriesReturn(rep)
    [] f = "getTags" -> getTagsReturn(rep)

\* The response of GET /api/stats on table tbl, when the round trip of
\* query function f ends as hows[f].
GETstatsOn(tbl, hows) ==
  GETstatsResponse(
    [f \in StatsCalls |->
       [outcome |-> hows[f],
        result |-> StatsReturn(f, StatsReply(tbl, f, hows[f]))]])

\* The module body of lib/db.js: it throws when a variable of the
\* environment is missing or empty, and creates the client otherwise.
dbModule(env) ==
  IF env.url \in {NULL, Some(<<>>)} \/ env.key \in {NULL, Some(<<>>)}
    THEN [threw |-> TRUE]
    ELSE [threw |-> FALSE, supabaseUrl |-> env.url.val,
          supabaseKey |-> env.key.val, persistSession |-> FALSE]

\* Variant: the criteria are kept in a variable of the module, which the
\* request that came in last has written.
LocalsOfModule(handlers, i) ==
  LET same == {j \in 1..Len(handlers) : handlers[j].route = handlers[i].route}
  IN handlers[CHOOSE j \in same : \A k \in same : k <= j]

\* The constants handler i declares are local to its call.
Locals(handlers, i) == handlers[i]

\* GET /api/prompts up to the await of searchPrompts.
GETpromptsAwaits(params) ==
  [route |-> "GET /api/prompts", params |-> params,
   parsed |-> ParseParams(params),
   request |-> dbQuery(searchPromptsParameters(ParseParams(params)))]

\* GET /api/stats up to the await of Promise.all.
GETstatsAwaits ==
  [route |-> "GET /api/stats", params |-> NULL,
   calls |-> [f \in StatsCalls |-> [outcome |-> "none", result |-> NULL]]]

(***************************************************************************)
(* scripts/notion-extract-ids.js, scripts/notion-extractor.js.             *)
(***************************************************************************)
\* page.id.replace(/-/g, '')
RECURSIVE removeHyphens(_)
removeHyphens(id) ==
  IF id = <<>> THEN <<>>
  ELSE (IF Head(id) = "-" THEN <<>> ELSE <<Head(id)>>) \o removeHyphens(Tail(id))

\* notion.databases.query({database_id, start_cursor}) on a database of
\* pages, answered with at most size results: the results after the
\* cursor (from the first page when there is none), whether more follow,
\* and the cursor to ask for them with.
databasesQuery(database, start_cursor, size) ==
  LET from == IF start_cursor = NULL THEN 0 ELSE start_cursor.val
      to == IF from + size < Len(database) THEN from + size ELSE Len(database)
  IN [results |-> SubSeq(database, from + 1, to),
      has_more |-> to < Len(database),
      next_cursor |-> IF to < Len(database) THEN Some(to) ELSE NULL]

\* What the script keeps of the results of one response.
Kept(script, results) ==
  IF script = "notion-extract-ids"
    THEN [k \in 1..Len(results) |-> removeHyphens(results[k].id)]
    ELSE results

\* Variant: the results replace what was fetched before.
whileBodyKeepsLast(script, locals, response) ==
  [all |-> Kept(script, response.results),
   hasMore |-> response.has_more,
   startCursor |-> response.next_cursor]

\* One pass of the while loop after its await: the results are appended,
\* hasMore and startCursor are taken from the response.
whileBody(script, locals, response) ==
  [all |-> locals.all \o Kept(script, response.results),
   hasMore |-> response.has_more,
   startCursor |-> response.next_cursor]

\* array.join('\n')
RECURSIVE joinLines(_)
joinLines(lines) ==
  IF lines = <<>> THEN <<>>
  ELSE IF Len(lines) = 1 THEN lines[1]
  ELSE lines[1] \o <<"\n">> \o joinLines(Tail(lines))

\* processPages(pages): id, times, url and properties of every page.
processPages(pages) == [k \in 1..Len(pages) |-> [id |-> pages[k].id]]

\* What main writes to the output file.
outputOf(script, all) ==
  IF script = "notion-extract-ids"
    THEN joinLines(all) \o <<"\n">>
    ELSE [pages |-> processPages(all),
          metadata |-> [total_pages |-> Len(processPages(all))]]

(***************************************************************************)
(* Inputs the calls are made with.                                         *)
(***************************************************************************)
S_sp == <<" ">>
S_sp_ai_sp == <<" ", "a", "i", " ">>
S_sp_Art_sp == <<" ", "A", "r", "t", " ">>
S_inject == <<"a", "i", ",", "c", "a", "t", "e", "g", "o", "r", "y", ".", "e", "q", ".", "A", "r", "t">>
S_x_y == <<" ", "x", " ", ",", ",", "y">>
S_commas == <<",", " ", ",">>
S_2 == <<"2">>
S_1 == <<"1">>
S_minus1 == <<"-", "1">>
S_99 == <<"9", "9">>

\* The pages a Notion database may hold, and the databases extracted.
NotionPages ==
  {[id |-> <<"a", "-", "b", "-", "c">>], [id |-> <<"d", "-", "e">>],
   [id |-> <<"f">>]}
Databases ==
  {d \in UNION {[1..n -> NotionPages] : n \in 0..MaxPages} :
     \A i, j \in 1..Len(d) : i # j => d[i] # d[j]}

\* The environment lib/db.js is loaded in.
S_url == <<"u">>
S_key == <<"k">>
Environments ==
  {[url |-> Some(S_url), key |-> Some(S_key)],
   [url |-> Some(S_url), key |-> Some(<<>>)],
   [url |-> NULL, key |-> Some(S_key)]}

\* The search parameters of the requests served side by side.
ServedParams ==
  {[query |-> NULL, category |-> NULL, tags |-> NULL, limit |-> NULL,
    offset |-> NULL],
   [query |-> Some(S_sp_ai_sp), category |-> Some(S_Art), tags |-> NULL,
    limit |-> Some(S_1), offset |-> NULL]}

\* The ids getPromptById is called with: those of the rows and one more.
Ids == 1..(MaxRows + 1)

\* What the user types into the search bar.
TypedQueries == {<<>>, S_sp_ai_sp}
TypedCategories == {<<>>, S_Art}

\* The rows of the table the page is opened on.
PageRows == {r \in ImportRows : r.created_at >= 3}

Queries == {<<>>, S_sp, S_sp_ai_sp, S_ai_go, S_inject}
Categories == {NULL, Some(<<>>), Some(S_sp), Some(S_sp_Art_sp)}
TagLists == {<<>>, <<S_x>>, <<S_x, S_y>>}

Criteria ==
  [query : Queries, category : Categories, tags : TagLists,
   limit : {Num(n) : n \in 1..MaxLimit},
   offset : {Num(n) : n \in 0..MaxOffset}]

SearchParams ==
  [query : {NULL, Some(<<>>), Some(S_sp_ai_sp)},
   category : {NULL, Some(<<>>), Some(S_sp_Art_sp)},
   tags : {NULL, Some(<<>>), Some(S_commas), Some(S_x_y)},
   limit : {NULL, Some(<<>>), Some(S_2), Some(S_x)},
   offset : {NULL, Some(<<>>), Some(S_1)}]

\* Requests that page only: limit zero, negative, beyond the table and not
\* a number; offset negative.
PagingParams ==
  [query : {NULL}, category : {NULL}, tags : {NULL},
   limit : {Some(S_0), Some(S_minus1), Some(S_99), Some(S_x)},
   offset : {NULL, Some(S_minus1), Some(S_1)}]

(***************************************************************************)
(* State.                                                                  *)
(***************************************************************************)
VARIABLES
  table,       \* the rows of table prompts, in insertion order
  pc,          \* "idle", "await" (a request is with the Data Store), "done"
  op,          \* the call in progress
  http,        \* the search parameters of the GET request, if any
  passed,      \* the object the caller passed to searchPrompts
  args,        \* the criteria searchPrompts works with, defaults applied
  request,     \* the request sent to the Data Store
  reply,       \* what the await produced
  result,      \* what the query function returned (or threw)
  response,    \* the HTTP response of the route
  outcome,     \* how the round trip ended: "answered", "error", "nothing",
               \* "thrown"; "none" before it has
  roundTrips,  \* requests the call in progress has sent to the Data Store
  stats        \* GET /api/stats: per query function, how its round trip
               \* ended ("none" while it waits), what the function returned
               \* and how many rows the table had when the round trip ended
VARIABLES
  page         \* the page in the browser: whether it is mounted, the inputs
               \* of the search bar (query, category) and what was done
               \* with it last (event), the state of Home (prompts,
               \* loading), the calls of fetchPrompts in flight in the
               \* order they started (fetches), and the call that finished
               \* last (last)

VARIABLES
  server       \* the API process: the client lib/db.js exports (NULL before
               \* the module is loaded), the route handlers that wait for
               \* the Data Store in the order their requests came in
               \* (handlers), and the response sent last (sent)

VARIABLES
  notion       \* a run of an extraction script: which script, the pages of
               \* the Notion database, where the run is (pc), the variables
               \* of the loop (all, hasMore, startCursor), and the output
               \* file (NULL while it is not written)

vars == <<table, pc, op, http, passed, args, request, reply, result,
          response, outcome, roundTrips, stats, page, server, notion>>

\* The call in progress.
callVars == <<pc, op, http, passed, args, request, reply, result,
              response, outcome, roundTrips, stats>>

\* All of them but the page.
coreVars == <<table, callVars, server, notion>>

\* All of them but the run of the extraction script.
appVars == <<table, callVars, server, page>>

Init ==
  /\ table = <<>>
  /\ pc = "idle"
  /\ op = "none"
  /\ http = NULL
  /\ passed = NULL
  /\ args = NULL
  /\ request = NULL
  /\ reply = NULL
  /\ result = NULL
  /\ response = NULL
  /\ outcome = "none"
  /\ roundTrips = 0
  /\ stats = NULL
  /\ page = [mounted |-> FALSE, query |-> <<>>, category |-> <<>>,
             prompts |-> <<>>, loading |-> FALSE,
             event |-> "none", fetches |-> <<>>, last |-> NULL]
  /\ server = [supabase |-> NULL, handlers |-> <<>>, sent |-> NULL]
  /\ notion = [pc |-> "idle", script |-> "none", database |-> <<>>,
               all |-> <<>>, hasMore |-> FALSE, startCursor |-> NULL,
               file |-> NULL]

\* The bulk import loads one more row of the file (outside the application).
Import(r) ==
  /\ pc = "idle"
  /\ Len(table) < MaxRows
  /\ \A i \in 1..Len(table) :
        [title |-> table[i].title, content |-> table[i].content,
         category |-> table[i].category, tags |-> table[i].tags,
         created_at |-> table[i].created_at] # r
  /\ table' = InsertRow(table, r)
  /\ UNCHANGED <<page, server, notion, pc, op, http, passed, args, request, reply, result,
                 response, outcome, roundTrips, stats>>

\* searchPrompts(given) runs up to its await.
searchPromptsCall(given) ==
  /\ pc = "idle"
  /\ pc' = "await"
  /\ op' = "searchPrompts"
  /\ passed' = given
  /\ args' = searchPromptsParameters(given)
  /\ LET awaits == searchPromptsAwaits(searchPromptsParameters(given))
     IN /\ request' = awaits[Len(awaits)]
        /\ roundTrips' = roundTrips + Len(awaits)
  /\ UNCHANGED <<page, server, notion, stats, table, http, reply, result, response, outcome>>

\* GET /api/prompts parses its parameters and calls searchPrompts.
GETprompts(params) ==
  /\ pc = "idle"
  /\ pc' = "await"
  /\ op' = "GET /api/prompts"
  /\ http' = params
  /\ passed' = ParseParams(params)
  /\ args' = searchPromptsParameters(ParseParams(params))
  /\ LET awaits == searchPromptsAwaits(searchPromptsParameters(ParseParams(params)))
     IN /\ request' = awaits[Len(awaits)]
        /\ roundTrips' = roundTrips + Len(awaits)
  /\ UNCHANGED <<page, server, notion, stats, table, reply, result, response, outcome>>

\* getPromptCount() runs up to its await.
getPromptCountCall ==
  /\ pc = "idle"
  /\ pc' = "await"
  /\ op' = "getPromptCount"
  /\ request' = [count |-> "exact", head |-> TRUE]
  /\ roundTrips' = roundTrips + 1
  /\ UNCHANGED <<page, server, notion, stats, table, http, passed, args, reply, result, response, outcome>>

\* getPromptById(id) runs up to its await.
getPromptByIdCall(id) ==
  /\ pc = "idle"
  /\ pc' = "await"
  /\ op' = "getPromptById"
  /\ args' = [id |-> id]
  /\ request' = selectSingle(id)
  /\ roundTrips' = roundTrips + 1
  /\ UNCHANGED <<page, server, notion, stats, table, http, passed, reply, result, response, outcome>>

\* getCategories() runs up to its await.
getCategoriesCall ==
  /\ pc = "idle"
  /\ pc' = "await"
  /\ op' = "getCategories"
  /\ request' = selectNotNull("category")
  /\ roundTrips' = roundTrips + 1
  /\ UNCHANGED <<page, server, notion, stats, table, http, passed, args, reply, result, response, outcome>>

\* getTags() runs up to its await.
getTagsCall ==
  /\ pc = "idle"
  /\ pc' = "await"
  /\ op' = "getTags"
  /\ request' = selectNotNull("tags")
  /\ roundTrips' = roundTrips + 1
  /\ UNCHANGED <<page, server, notion, stats, table, http, passed, args, reply, result, response, outcome>>

\* Variant: the connection is tested by inserting a row.
testConnectionByInsert ==
  /\ pc = "idle"
  /\ pc' = "await"
  /\ op' = "testConnection"
  /\ request' = selectIdLimit
  /\ roundTrips' = roundTrips + 1
  /\ table' = InsertRow(table, [title |-> NULL, content |-> NULL,
                                category |-> NULL, tags |-> NULL,
                                created_at |-> 0])
  /\ UNCHANGED <<page, server, notion, stats, http, passed, args, reply, result, response, outcome>>

\* testConnection() runs up to its await.
testConnectionCall ==
  /\ pc = "idle"
  /\ pc' = "await"
  /\ op' = "testConnection"
  /\ request' = selectIdLimit
  /\ roundTrips' = roundTrips + 1
  /\ UNCHANGED <<page, server, notion, stats, table, http, passed, args, reply, result, response, outcome>>

\* What query function f returns on the outcome rep of its await.
ReturnOf(f, rep) ==
  CASE f = "getPromptCount" -> getPromptCountReturn(rep)
    [] f = "getPromptById" -> getPromptByIdReturn(rep)
    [] f = "getCategories" -> getCategoriesReturn(rep)
    [] f = "getTags" -> getTagsReturn(rep)
    [] f = "testConnection" -> testConnectionReturn(rep)
    [] OTHER -> searchPromptsReturn(rep)

\* What the function in progress returns on the outcome rep of its await.
Return(rep) == ReturnOf(op, rep)

\* The reply of the Data Store to the request rq of query function f.
ReplyTo(f, rq) ==
  CASE f = "getPromptCount" -> ExecuteCount(table)
    [] f = "getPromptById" -> ExecuteSingle(table, rq)
    [] f \in {"getCategories", "getTags"} -> ExecuteColumn(table, rq)
    [] f = "testConnection" -> ExecuteIds(table, rq)
    [] OTHER -> Execute(table, rq)

\* The reply of the Data Store to the request in flight.
Reply == ReplyTo(op, request)

\* The request query function f of GET /api/stats sends.
RequestOf(f) ==
  CASE f = "getPromptCount" -> [count |-> "exact", head |-> TRUE]
    [] f = "getCategories" -> selectNotNull("category")
    [] f = "getTags" -> selectNotNull("tags")

\* GET /api/stats starts the three query functions; each runs up to its
\* await, so three requests are with the Data Store at once.
GETstats ==
  /\ pc = "idle"
  /\ pc' = "await"
  /\ op' = "GET /api/stats"
  /\ stats' = [f \in StatsCalls |->
                 [outcome |-> "none", result |-> NULL, seen |-> 0]]
  /\ roundTrips' = roundTrips + Cardinality(StatsCalls)
  /\ UNCHANGED <<page, server, notion, table, http, passed, args, request, reply, result, response,
                 outcome>>

\* Query function f of GET /api/stats continues after its await with
\* outcome rep and returns.
Settle(f, how, rep) ==
  /\ stats[f].outcome = "none"
  /\ stats' = [stats EXCEPT ![f] = [outcome |-> how, result |-> ReturnOf(f, rep),
                                     seen |-> Len(table)]]
  /\ UNCHANGED <<page, server, notion, table, pc, op, http, passed, args, request, reply, result,
                 response, outcome, roundTrips>>

\* Promise.all has settled and GET /api/stats responds.
GETstatsRespond ==
  /\ pc = "await" /\ op = "GET /api/stats"
  /\ Rejected(stats) \/ Fulfilled(stats)
  /\ pc' = "done"
  /\ response' = GETstatsResponse(stats)
  /\ UNCHANGED <<page, server, notion, stats, table, op, http, passed, args, request, reply, result,
                 outcome, roundTrips>>

\* A statement of the try block of the route throws, outside the query
\* functions: the catch block responds.
HandlerThrows(route) ==
  /\ pc = "idle"
  /\ pc' = "failed"
  /\ op' = route
  /\ response' = IF route = "GET /api/stats" THEN GETstatsCatch
                 ELSE GETpromptsCatch
  /\ UNCHANGED <<page, server, notion, stats, table, http, passed, args, request, reply, result,
                 outcome, roundTrips>>

\* The call in progress continues after its await with outcome rep.
Resume(how, rep) ==
  /\ pc' = "done"
  /\ outcome' = how
  /\ reply' = rep
  /\ result' = Return(rep)
  /\ response' = IF op = "GET /api/prompts"
                   THEN GETpromptsResponse(passed, searchPromptsReturn(rep))
                   ELSE NULL
  /\ UNCHANGED <<page, server, notion, stats, table, op, http, passed, args, request, roundTrips>>

\* The Data Store runs the request and answers it.
DataStoreAnswers ==
  /\ pc = "await"
  /\ IF op = "GET /api/stats"
       THEN \E f \in StatsCalls :
               Settle(f, "answered",
                      [thrown |-> FALSE] @@ ReplyTo(f, RequestOf(f)))
       ELSE Resume("answered", [thrown |-> FALSE] @@ Reply)

\* The round trip fails and the client reports an error value.
DataStoreReportsError ==
  /\ pc = "await"
  /\ LET rep == [thrown |-> FALSE, data |-> NULL, error |-> Some("503"),
                 count |-> NULL]
     IN IF op = "GET /api/stats"
          THEN \E f \in StatsCalls : Settle(f, "error", rep)
          ELSE Resume("error", rep)

\* The reply carries neither an error nor data nor a count.
DataStoreAnswersNothing ==
  /\ pc = "await"
  /\ LET rep == [thrown |-> FALSE, data |-> NULL, error |-> NULL,
                 count |-> NULL]
     IN IF op = "GET /api/stats"
          THEN \E f \in StatsCalls : Settle(f, "nothing", rep)
          ELSE Resume("nothing", rep)

\* The client throws instead of returning.
ClientThrows ==
  /\ pc = "await"
  /\ LET rep == [thrown |-> TRUE, data |-> NULL, error |-> NULL,
                 count |-> NULL]
     IN IF op = "GET /api/stats"
          THEN \E f \in StatsCalls : Settle(f, "thrown", rep)
          ELSE Resume("thrown", rep)

\* The caller has the result; the next call may start.
Finish ==
  /\ pc \in {"done", "failed"}
  /\ pc' = "idle"
  /\ op' = "none"
  /\ http' = NULL
  /\ passed' = NULL
  /\ args' = NULL
  /\ request' = NULL
  /\ reply' = NULL
  /\ result' = NULL
  /\ response' = NULL
  /\ outcome' = "none"
  /\ roundTrips' = 0
  /\ stats' = NULL
  /\ UNCHANGED <<page, server, notion, table>>

Next ==
  \/ \E r \in ImportRows : Import(r)
  \/ \E given \in Criteria \cup {NoArguments} : searchPromptsCall(given)
  \/ \E params \in SearchParams \cup PagingParams : GETprompts(params)
  \/ getPromptCountCall
  \/ \E id \in Ids : getPromptByIdCall(id)
  \/ getCategoriesCall
  \/ getTagsCall
  \/ testConnectionCall
  \/ GETstats
  \/ GETstatsRespond
  \/ \E route \in {"GET /api/prompts", "GET /api/stats"} : HandlerThrows(route)
  \/ DataStoreAnswers
  \/ DataStoreReportsError
  \/ DataStoreAnswersNothing
  \/ ClientThrows
  \/ Finish

Spec == Init /\ [][Next]_vars

(***************************************************************************)
(* The page in the browser, on a table loaded before it is opened.         *)
(***************************************************************************)
\* created_at DEFAULT NOW(): a row loaded later carries a later time.
ImportBeforeMount(r) ==
  /\ ~page.mounted
  /\ \A i \in 1..Len(table) : table[i].created_at < r.created_at
  /\ Import(r)

\* useEffect on mount: fetchPrompts() starts. (fetchStats() starts too; it
\* sets the figures of the Stats component and nothing of the list.)
Mount ==
  /\ ~page.mounted
  /\ page' = startFetch([page EXCEPT !.mounted = TRUE], NoArguments)
  /\ UNCHANGED coreVars

\* onChange of the query input.
TypeQuery(text) ==
  /\ page.mounted /\ page.query # text
  /\ page' = [page EXCEPT !.query = text, !.event = "typed"]
  /\ UNCHANGED coreVars

\* onChange of the category input.
TypeCategory(text) ==
  /\ page.mounted /\ page.category # text
  /\ page' = [page EXCEPT !.category = text, !.event = "typed"]
  /\ UNCHANGED coreVars

\* handleSubmit: onSearch({query, category}), that is fetchPrompts of them.
Submit ==
  /\ page.mounted /\ Len(page.fetches) < MaxInFlight
  /\ page' = startFetch([page EXCEPT !.event = "Search"],
                        [query |-> page.query, category |-> page.category])
  /\ UNCHANGED coreVars

\* Variant: the category input is left as it is, and is searched for.
ClearQueryOnly ==
  /\ page.mounted /\ Len(page.fetches) < MaxInFlight
  /\ page' = startFetch([page EXCEPT !.query = <<>>, !.event = "Clear"],
                        [query |-> <<>>, category |-> page.category])
  /\ UNCHANGED coreVars

\* handleClear: both inputs are emptied and onSearch({query: '', category: ''}).
Clear ==
  /\ page.mounted /\ Len(page.fetches) < MaxInFlight
  /\ page' = startFetch([page EXCEPT !.query = <<>>, !.category = <<>>,
                                     !.event = "Clear"],
                        [query |-> <<>>, category |-> <<>>])
  /\ UNCHANGED coreVars

\* await fetch(...) of call i resumes with a response.
ResponseArrives(i) ==
  /\ i \in 1..Len(page.fetches) /\ page.fetches[i].stage = "fetch"
  /\ page' = [page EXCEPT !.fetches[i].stage = "json"]
  /\ UNCHANGED coreVars

\* await fetch(...) of call i rejects: the network failed.
NetworkFails(i) ==
  /\ i \in 1..Len(page.fetches) /\ page.fetches[i].stage = "fetch"
  /\ page' = fetchPromptsCatch(page, i, "network")
  /\ UNCHANGED coreVars

\* await response.json() of call i resumes with the body GET /api/prompts
\* has sent.
BodyParsed(i, how) ==
  /\ i \in 1..Len(page.fetches) /\ page.fetches[i].stage = "json"
  /\ page' = fetchPromptsThen(page, i, how,
                ServerResponse(table, page.fetches[i].url, how).body)
  /\ UNCHANGED coreVars

\* await response.json() of call i rejects: the body is not JSON (an error
\* page of the platform).
BodyFailsToParse(i) ==
  /\ i \in 1..Len(page.fetches) /\ page.fetches[i].stage = "json"
  /\ page' = fetchPromptsCatch(page, i, "not JSON")
  /\ UNCHANGED coreVars

\* await response.json() of call i resumes with an object the route did not
\* write (the error object of a gateway): data.prompts is undefined.
BodyHasNoPrompts(i) ==
  /\ i \in 1..Len(page.fetches) /\ page.fetches[i].stage = "json"
  /\ page' = fetchPromptsThen(page, i, "no prompts", [message |-> "Bad Gateway"])
  /\ UNCHANGED coreVars

NextPage ==
  \/ \E r \in PageRows : ImportBeforeMount(r)
  \/ Mount
  \/ \E text \in TypedQueries : TypeQuery(text)
  \/ \E text \in TypedCategories : TypeCategory(text)
  \/ Submit
  \/ Clear
  \/ \E i \in 1..MaxInFlight : ResponseArrives(i)
  \/ \E i \in 1..MaxInFlight : NetworkFails(i)
  \/ \E i \in 1..MaxInFlight :
        \E how \in {"answered", "error", "handler threw"} : BodyParsed(i, how)
  \/ \E i \in 1..MaxInFlight : BodyFailsToParse(i)
  \/ \E i \in 1..MaxInFlight : BodyHasNoPrompts(i)

SpecPage == Init /\ [][NextPage]_vars

\* The rest of fetchPrompts runs once the promise it awaits has settled: a
\* response that has arrived is read to its end, as JSON or with an error,
\* and the continuation is then run by the event loop. A request that is
\* still on its way may stay so for ever: fetch has no timeout.
BodyIsRead ==
  \E i \in 1..MaxInFlight :
     \/ BodyFailsToParse(i)
     \/ BodyHasNoPrompts(i)
     \/ \E how \in {"answered", "error", "handler threw"} : BodyParsed(i, how)

SpecPageFair == SpecPage /\ WF_vars(BodyIsRead)

(***************************************************************************)
(* The API process: lib/db.js is loaded once, then requests are served     *)
(* side by side on a table that no longer changes.                         *)
(***************************************************************************)
ImportBeforeLoad(r) ==
  /\ server.supabase = NULL
  /\ \A i \in 1..Len(table) : table[i].created_at < r.created_at
  /\ Import(r)

\* The first import of lib/db.js runs its module body.
ModuleLoad(env) ==
  /\ server.supabase = NULL
  /\ server' = [server EXCEPT !.supabase = dbModule(env)]
  /\ UNCHANGED <<page, notion, table, callVars>>

\* The client is there for the query functions to use.
Serving == server.supabase # NULL /\ ~server.supabase.threw

\* A GET /api/prompts request comes in and its handler runs up to its await.
ReceiveGETprompts(params) ==
  /\ Serving /\ Len(server.handlers) < MaxInFlight
  /\ server' = [server EXCEPT
                  !.handlers = Append(@, GETpromptsAwaits(params))]
  /\ UNCHANGED <<page, notion, table, callVars>>

\* A GET /api/stats request comes in and its handler runs up to its await.
ReceiveGETstats ==
  /\ Serving /\ Len(server.handlers) < MaxInFlight
  /\ server' = [server EXCEPT !.handlers = Append(@, GETstatsAwaits)]
  /\ UNCHANGED <<page, notion, table, callVars>>

\* The round trip of handler i of GET /api/prompts ends, and the handler
\* responds.
GETpromptsResumes(i, how) ==
  /\ i \in 1..Len(server.handlers)
  /\ server.handlers[i].route = "GET /api/prompts"
  /\ LET mine == Locals(server.handlers, i)
         rep == IF how = "error" THEN ErrorReply
                ELSE [thrown |-> FALSE] @@ Execute(table, mine.request)
     IN server' = [server EXCEPT
          !.handlers = Without(@, i),
          !.sent = [route |-> "GET /api/prompts",
                    params |-> server.handlers[i].params,
                    hows |-> how,
                    response |-> GETpromptsResponse(mine.parsed,
                                                    searchPromptsReturn(rep))]]
  /\ UNCHANGED <<page, notion, table, callVars>>

\* The round trip of query function f of handler i of GET /api/stats ends;
\* when it is the last of the three, Promise.all settles and the handler
\* responds.
GETstatsResumes(i, f, how) ==
  /\ i \in 1..Len(server.handlers)
  /\ server.handlers[i].route = "GET /api/stats"
  /\ server.handlers[i].calls[f].outcome = "none"
  /\ LET calls == [server.handlers[i].calls EXCEPT
                     ![f] = [outcome |-> how,
                             result |-> StatsReturn(f, StatsReply(table, f, how))]]
     IN IF Rejected(calls) \/ Fulfilled(calls)
          THEN server' = [server EXCEPT
                 !.handlers = Without(@, i),
                 !.sent = [route |-> "GET /api/stats", params |-> NULL,
                           hows |-> [g \in StatsCalls |-> calls[g].outcome],
                           response |-> GETstatsResponse(calls)]]
          ELSE server' = [server EXCEPT !.handlers[i].calls = calls]
  /\ UNCHANGED <<page, notion, table, callVars>>

NextServer ==
  \/ \E r \in PageRows : ImportBeforeLoad(r)
  \/ \E env \in Environments : ModuleLoad(env)
  \/ \E params \in ServedParams : ReceiveGETprompts(params)
  \/ ReceiveGETstats
  \/ \E i \in 1..MaxInFlight : \E how \in {"answered", "error"} :
        GETpromptsResumes(i, how)
  \/ \E i \in 1..MaxInFlight : \E f \in StatsCalls :
        \E how \in {"answered", "error"} : GETstatsResumes(i, f, how)

SpecServer == Init /\ [][NextServer]_vars

(***************************************************************************)
(* A run of an extraction script.                                          *)
(***************************************************************************)
\* The variables of the loop before its first pass.
LoopStarts(run) ==
  [run EXCEPT !.pc = "query", !.all = <<>>, !.hasMore = TRUE,
              !.startCursor = NULL]

\* main() of a script on a database: notion-extract-ids enters the loop of
\* fetchDatabasePageIds and awaits the first query, notion-extractor
\* awaits the schema of the database first.
main(script, database) ==
  /\ notion.pc = "idle"
  /\ notion' = IF script = "notion-extract-ids"
                 THEN LoopStarts([notion EXCEPT !.script = script,
                                                !.database = database])
                 ELSE [notion EXCEPT !.script = script, !.database = database,
                                     !.pc = "schema"]
  /\ UNCHANGED appVars

\* getDatabaseSchema has returned: fetchDatabasePages enters its loop and
\* awaits the first query.
SchemaArrives ==
  /\ notion.pc = "schema"
  /\ notion' = LoopStarts(notion)
  /\ UNCHANGED appVars

\* The query is answered with at most size results and the loop goes
\* round: it awaits the next query while hasMore, and returns otherwise;
\* main then writes the file (written: writeFileSync does not throw) and
\* ends, or ends in its catch block.
QueryAnswers(size, written) ==
  /\ notion.pc = "query"
  /\ LET locals == whileBody(notion.script, notion,
                             databasesQuery(notion.database,
                                            notion.startCursor, size))
         run == [notion EXCEPT !.all = locals.all,
                               !.hasMore = locals.hasMore,
                               !.startCursor = locals.startCursor]
     IN notion' = IF locals.hasMore THEN run
                  ELSE IF written
                    THEN [run EXCEPT !.pc = "done",
                                     !.file = Some(outputOf(run.script, run.all))]
                  ELSE [run EXCEPT !.pc = "exit 1"]
  /\ UNCHANGED appVars

\* The request in flight fails (rate limit, no access): the await throws,
\* the catch block of main logs and calls process.exit(1).
RequestFails ==
  /\ notion.pc \in {"schema", "query"}
  /\ notion' = [notion EXCEPT !.pc = "exit 1"]
  /\ UNCHANGED appVars

NextNotion ==
  \/ \E script \in {"notion-extract-ids", "notion-extractor"} :
        \E database \in Databases : main(script, database)
  \/ SchemaArrives
  \/ \E size \in 1..MaxBatch : \E written \in BOOLEAN :
        QueryAnswers(size, written)
  \/ RequestFails

SpecNotion == Init /\ [][NextNotion]_vars

\* Every request to Notion is answered or fails, and the script then runs
\* on.
NotionResponds ==
  \/ SchemaArrives
  \/ \E size \in 1..MaxBatch : \E written \in BOOLEAN :
        QueryAnswers(size, written)
  \/ RequestFails

SpecNotionFair == SpecNotion /\ WF_vars(NotionResponds)

(***************************************************************************)
(* GET /api/stats while the bulk import is loading rows.                   *)
(***************************************************************************)
\* The import loads one more row while the three requests of GET /api/stats
\* are with the Data Store.
ImportWhileWaiting(r) ==
  /\ pc = "await" /\ op = "GET /api/stats"
  /\ Len(table) < MaxRows
  /\ \A i \in 1..Len(table) :
        [title |-> table[i].title, content |-> table[i].content,
         category |-> table[i].category, tags |-> table[i].tags,
         created_at |-> table[i].created_at] # r
  /\ table' = InsertRow(table, r)
  /\ UNCHANGED <<page, server, notion, pc, op, http, passed, args, request, reply, result,
                 response, outcome, roundTrips, stats>>

NextStats ==
  \/ \E r \in ImportRows : Import(r)
  \/ \E r \in ImportRows : ImportWhileWaiting(r)
  \/ GETstats
  \/ DataStoreAnswers
  \/ DataStoreReportsError
  \/ GETstatsRespond
  \/ Finish

SpecStats == Init /\ [][NextStats]_vars

(***************************************************************************)
(* Vocabulary of the properties.                                           *)
(***************************************************************************)
IsSearch == op \in {"searchPrompts", "GET /api/prompts"}
SearchDone == pc = "done" /\ IsSearch

Min(a, b) == IF a < b THEN a ELSE b
Max(a, b) == IF a > b THEN a ELSE b

ResultIds == {result.value[k].id : k \in 1..Len(result.value)}

\* title contains q as a substring, letter case ignored.
ContainsIgnoringCase(text, q) ==
  \E i \in 1..(Len(text) - Len(q) + 1) :
     ToLower(SubSeq(text, i, i + Len(q) - 1)) = ToLower(q)

\* content matches q as tokenised text: every word of q is a word of it.
FullTextMatches(text, q) ==
  /\ Words(q, <<>>) # {}
  /\ Words(q, <<>>) \subseteq Words(text, <<>>)

TextActive(a) == trim(a.query) # <<>>
CategoryActive(a) == a.category # NULL /\ trim(a.category.val) # <<>>
TagsActive(a) == a.tags # <<>>

PassesText(row, a) ==
  \/ row.content # NULL /\ FullTextMatches(row.content.val, trim(a.query))
  \/ row.title # NULL /\ ContainsIgnoringCase(row.title.val, trim(a.query))

PassesCategory(row, a) ==
  row.category # NULL /\ row.category.val = trim(a.category.val)

PassesTags(row, a) ==
  row.tags # NULL /\ \A k \in 1..Len(a.tags) : a.tags[k] \in Range(row.tags.val)

Passes(row, a) ==
  /\ TextActive(a) => PassesText(row, a)
  /\ CategoryActive(a) => PassesCategory(row, a)
  /\ TagsActive(a) => PassesTags(row, a)

\* The first page is wide enough to hold every row of ids.
PageHolds(ids) ==
  args.offset = Num(0) /\ args.limit # NaN /\ Cardinality(ids) <= args.limit.n

(***************************************************************************)
(* C1: a search with limit >= 1 and offset >= 0 returns at most limit      *)
(* records, and they are in non-increasing created_at order, whichever     *)
(* filters are active.                                                     *)
(***************************************************************************)
C1_AtMostLimitNewestFirst ==
  (SearchDone /\ args.limit # NaN /\ args.offset # NaN
     /\ args.limit.n >= 1 /\ args.offset.n >= 0) =>
    /\ Len(result.value) <= args.limit.n
    /\ \A i, j \in 1..Len(result.value) :
          i < j => result.value[i].created_at >= result.value[j].created_at

\* A full page of two rows, the newer one first although it was inserted last.
C1_Witness ==
  /\ SearchDone /\ outcome = "answered"
  /\ Len(table) = 3
  /\ Len(result.value) = 2 /\ args.limit = Num(2)
  /\ result.value[1].created_at > result.value[2].created_at
  /\ result.value[1].id > result.value[2].id

(***************************************************************************)
(* C2: the filters are conjunctive: every returned record satisfies every  *)
(* active filter (text, category, tags), and with no active filter every   *)
(* record is eligible.                                                     *)
(***************************************************************************)
C2_FiltersAreConjunctive ==
  SearchDone =>
    /\ \A k \in 1..Len(result.value) : Passes(result.value[k], args)
    /\ (outcome = "answered" /\ reply.error = NULL /\ ~TextActive(args)
          /\ ~CategoryActive(args) /\ ~TagsActive(args)) =>
         Len(result.value)
           = Min(args.limit.n, Max(0, Len(table) - args.offset.n))

(***************************************************************************)
(* C3: the tag filter is a superset test: with a non-empty list of         *)
(* requested tags, a record passes iff its tags contain every requested    *)
(* tag; a record sharing only some of them is excluded.                    *)
(***************************************************************************)
C3_TagFilterIsSupersetTest ==
  (SearchDone /\ TagsActive(args)) =>
    /\ \A k \in 1..Len(result.value) : PassesTags(result.value[k], args)
    /\ (outcome = "answered" /\ ~TextActive(args) /\ ~CategoryActive(args)
          /\ PageHolds({id \in 1..Len(table) : PassesTags(table[id], args)})) =>
         \A id \in 1..Len(table) :
            PassesTags(table[id], args) => id \in ResultIds

\* Tags {x,y} requested: the row tagged {x,y,z} is returned, the row tagged
\* {x,z} (which shares x only) is not.
C3_Witness ==
  /\ SearchDone /\ outcome = "answered"
  /\ args.tags = <<S_x, S_y>>
  /\ \E id \in 1..Len(table) :
        table[id].tags = Some(<<S_x, S_z>>) /\ id \notin ResultIds
  /\ \E id \in ResultIds : table[id].tags = Some(<<S_x, S_y, S_z>>)

(***************************************************************************)
(* C4: the category filter is exact, case-sensitive equality with the      *)
(* trimmed requested category: a record passes iff its category equals     *)
(* it; "Art" excludes a record of category "art" and one of no category.   *)
(***************************************************************************)
C4_CategoryFilterIsExact ==
  (SearchDone /\ CategoryActive(args)) =>
    /\ \A k \in 1..Len(result.value) : PassesCategory(result.value[k], args)
    /\ (outcome = "answered" /\ ~TextActive(args) /\ ~TagsActive(args)
          /\ PageHolds({id \in 1..Len(table) : PassesCategory(table[id], args)})) =>
         \A id \in 1..Len(table) :
            PassesCategory(table[id], args) => id \in ResultIds

\* " Art " requested: the row of category "Art" is returned, the rows of
\* category "art" and of no category are not.
C4_Witness ==
  /\ SearchDone /\ outcome = "answered"
  /\ args.category = Some(S_sp_Art_sp)
  /\ \E id \in 1..Len(table) :
        table[id].category = Some(S_art) /\ id \notin ResultIds
  /\ \E id \in 1..Len(table) :
        table[id].category = NULL /\ id \notin ResultIds
  /\ \E id \in ResultIds : table[id].category = Some(S_Art)

(***************************************************************************)
(* C5: for every query whose trimmed form is non-empty the text filter is  *)
(* a disjunction: a record passes iff its content full-text-matches the    *)
(* trimmed query or its title contains it, letter case ignored.            *)
(***************************************************************************)
C5_TextFilterIsDisjunction ==
  (SearchDone /\ TextActive(args) /\ outcome = "answered") =>
    /\ \A k \in 1..Len(result.value) : PassesText(result.value[k], args)
    /\ (~CategoryActive(args) /\ ~TagsActive(args)
          /\ PageHolds({id \in 1..Len(table) : PassesText(table[id], args)})) =>
         \A id \in 1..Len(table) :
            PassesText(table[id], args) => id \in ResultIds

(***************************************************************************)
(* C6: a blank (empty or white-space-only) query and a blank or absent     *)
(* category add no filter: the result is the one obtained with that        *)
(* criterion omitted, also through GET /api/prompts with an empty query or *)
(* category parameter.                                                     *)
(***************************************************************************)
\* What searchPrompts(a) returns when the Data Store answers it.
Answer(a) ==
  searchPromptsReturn([thrown |-> FALSE] @@ Execute(table, dbQuery(a)))

\* The response of GET for parameters params when the Data Store answers.
AnswerOfGET(params) ==
  GETpromptsResponse(ParseParams(params), Answer(ParseParams(params)))

C6_BlankCriteriaAddNoFilter ==
  (SearchDone /\ outcome = "answered") =>
    /\ ~TextActive(args) => result = Answer([args EXCEPT !.query = <<>>])
    /\ ~CategoryActive(args) => result = Answer([args EXCEPT !.category = NULL])
    /\ (reply.error = NULL /\ ~TextActive(args) /\ ~CategoryActive(args)
          /\ ~TagsActive(args)) =>
         Len(result.value)
           = Min(args.limit.n, Max(0, Len(table) - args.offset.n))
    /\ (op = "GET /api/prompts" /\ http.query = Some(<<>>)) =>
         response = AnswerOfGET([http EXCEPT !.query = NULL])
    /\ (op = "GET /api/prompts" /\ http.category = Some(<<>>)) =>
         response = AnswerOfGET([http EXCEPT !.category = NULL])

\* A white-space-only query and category: every row is returned, the row
\* without title and category among them.
C6_Witness ==
  /\ SearchDone /\ outcome = "answered"
  /\ args.query = S_sp /\ args.category = Some(S_sp) /\ args.tags = <<>>
  /\ Len(table) = 2 /\ Len(result.value) = 2
  /\ \E id \in ResultIds : table[id].title = NULL /\ table[id].category = NULL

(***************************************************************************)
(* C7: pagination is applied after filtering and sorting: the result is    *)
(* the records at zero-based positions offset .. offset + limit - 1 of the *)
(* filtered, created_at-descending sequence, fewer when it is shorter.     *)
(***************************************************************************)
\* The whole filtered and sorted sequence: the same request, not paged.
Unpaged ==
  Execute(table, [request EXCEPT !.offset = Num(0),
                                 !.limit = Num(Len(table))]).data.val

PassingIds(a) == {id \in 1..Len(table) : Passes(table[id], a)}
Newer(row, a) ==
  Cardinality({id \in PassingIds(a) : table[id].created_at > row.created_at})
NotOlder(row, a) ==
  Cardinality({id \in PassingIds(a) : table[id].created_at >= row.created_at})

C7_PageIsWindowOfSortedFiltered ==
  (SearchDone /\ outcome = "answered" /\ reply.data # NULL) =>
    /\ result.value = SubSeq(Unpaged, args.offset.n + 1,
                             Min(args.offset.n + args.limit.n, Len(Unpaged)))
    /\ ~TextActive(args) =>
         /\ Len(result.value)
              = Min(args.limit.n,
                    Max(0, Cardinality(PassingIds(args)) - args.offset.n))
         /\ Cardinality(ResultIds) = Len(result.value)
         /\ \A k \in 1..Len(result.value) :
               /\ result.value[k].id \in PassingIds(args)
               /\ Newer(result.value[k], args) <= args.offset.n + k - 1
               /\ args.offset.n + k - 1 < NotOlder(result.value[k], args)

\* Three rows, limit 1 and offset 1: the one row returned is the second most
\* recent, a newer and an older row are left out.
C7_Witness ==
  /\ SearchDone /\ outcome = "answered"
  /\ Len(table) = 3 /\ PassingIds(args) = {1, 2, 3}
  /\ args.offset = Num(1) /\ args.limit = Num(1)
  /\ Len(result.value) = 1
  /\ \E id \in 1..3 : table[id].created_at > result.value[1].created_at
  /\ \E id \in 1..3 : table[id].created_at < result.value[1].created_at

(***************************************************************************)
(* C8: searchPrompts is fail-soft: when the round trip fails, by an error  *)
(* value or by an exception, it returns the empty sequence and does not    *)
(* throw.                                                                  *)
(***************************************************************************)
RoundTripFailed ==
  \/ outcome \in {"error", "thrown"}
  \/ outcome = "answered" /\ reply.error # NULL

C8_SearchIsFailSoft ==
  (SearchDone /\ RoundTripFailed) =>
    /\ ~result.threw
    /\ result.value = <<>>

\* The client threw on a search that every row of the table matches.
C8_Witness ==
  /\ pc = "done" /\ op = "searchPrompts" /\ outcome = "thrown"
  /\ Len(table) = 2 /\ PassingIds(args) = {1, 2} /\ args.offset = Num(0)
  /\ ~result.threw /\ result.value = <<>>

(***************************************************************************)
(* C9: a failed search cannot be told from an empty one: the value         *)
(* returned on failure is the value returned when no record matches, and   *)
(* GET /api/prompts answers both with status 200, prompts [] and count 0.  *)
(***************************************************************************)
NoRecordMatched == outcome = "answered" /\ reply.data = Some(<<>>)

C9_FailureLooksLikeNoMatch ==
  (SearchDone /\ (RoundTripFailed \/ NoRecordMatched)) =>
    /\ result = [threw |-> FALSE, value |-> <<>>]
    /\ op = "GET /api/prompts" =>
         /\ response.status = 200
         /\ response.body.prompts = <<>>
         /\ response.body.count = 0
         /\ response = GETpromptsResponse(args, [threw |-> FALSE, value |-> <<>>])

\* The Data Store reported an error to a GET that would have matched rows.
C9_Witness ==
  /\ pc = "done" /\ op = "GET /api/prompts" /\ outcome = "error"
  /\ PassingIds(args) # {} /\ args.offset = Num(0)
  /\ response.status = 200 /\ response.body.count = 0

(***************************************************************************)
(* C10: getPromptCount returns the number of records of the table (0 when  *)
(* it is empty), and 0 without throwing when the read fails or carries no  *)
(* count.                                                                  *)
(***************************************************************************)
C10_CountIsTableSize ==
  (pc = "done" /\ op = "getPromptCount") =>
    /\ ~result.threw
    /\ outcome = "answered" => result.value = Len(table)
    /\ outcome # "answered" => result.value = 0

\* Three rows counted; rows with null columns count too.
C10_Witness ==
  /\ pc = "done" /\ op = "getPromptCount" /\ outcome = "answered"
  /\ Len(table) = 3 /\ result.value = 3
  /\ \E id \in 1..3 : table[id].category = NULL


\* The array is in strictly ascending order, so without a repeated value.
Ascending(array) ==
  \A i \in 1..Len(array) : \A j \in 1..Len(array) :
    i < j => StringLess(array[i], array[j])

CategoriesPresent ==
  {table[i].category.val : i \in {k \in 1..Len(table) : table[k].category # NULL}}

TagsPresent ==
  UNION {Range(table[i].tags.val) : i \in {k \in 1..Len(table) : table[k].tags # NULL}}

\* C11: getCategories returns exactly the distinct non-null categories of
\* the Data Store, each once, in ascending order; it returns the empty list
\* when there is none and when the round trip fails, and it never throws.
C11_CategoriesDistinctSorted ==
  (pc = "done" /\ op = "getCategories") =>
     /\ result.threw = FALSE
     /\ IF outcome = "answered"
          THEN /\ Range(result.value) = CategoriesPresent
               /\ Ascending(result.value)
          ELSE result.value = <<>>

\* A category held by several records and a table whose categories come
\* out of order.
C11_Witness ==
  /\ pc = "done" /\ op = "getCategories" /\ outcome = "answered"
  /\ Len(table) = MaxRows
  /\ table[1].category = Some(S_art)
  /\ table[2].category = Some(S_Art) /\ table[3].category = Some(S_Art)
  /\ result.value = <<S_Art, S_art>>

\* C12: getTags returns every tag that appears on a record, once however
\* many records carry it, in ascending order; it returns the empty list
\* when there is none and when the round trip fails, and it never throws.
C12_TagsFlattenedDistinctSorted ==
  (pc = "done" /\ op = "getTags") =>
     /\ result.threw = FALSE
     /\ IF outcome = "answered"
          THEN /\ Range(result.value) = TagsPresent
               /\ Ascending(result.value)
          ELSE result.value = <<>>

\* Tags shared by records, first met out of order.
C12_Witness ==
  /\ pc = "done" /\ op = "getTags" /\ outcome = "answered"
  /\ Len(table) >= 2
  /\ table[1].tags = Some(<<S_x, S_z>>)
  /\ table[2].tags = Some(<<S_x, S_y>>)
  /\ result.value = <<S_x, S_y, S_z>>

\* C13: getPromptById returns the record whose id is the given id when
\* there is one, and null when there is none and when the round trip
\* fails; it never throws.
C13_ByIdRecordOrNull ==
  (pc = "done" /\ op = "getPromptById") =>
     /\ result.threw = FALSE
     /\ IF outcome = "answered" /\ args.id \in 1..Len(table)
          THEN result.value = Some(table[args.id]) /\ table[args.id].id = args.id
          ELSE result.value = NULL

\* A record found among several, and the states where none is returned.
C13_Witness ==
  /\ pc = "done" /\ op = "getPromptById" /\ outcome = "answered"
  /\ Len(table) = MaxRows /\ args.id = 2
  /\ result.value = Some(table[2])


\* C14: a call of searchPrompts, made directly or by GET /api/prompts, sends
\* one request to the Data Store: it carries the ordering, the page window
\* and exactly the active filters, and no other request follows it, whether
\* it succeeds or fails.
C14_OneRequestPerSearch ==
  (IsSearch /\ pc \in {"await", "done"}) =>
     /\ roundTrips = 1
     /\ request.order = Some([column |-> S_created_at, ascending |-> FALSE])
     /\ request.offset = args.offset /\ request.limit = args.limit
     /\ (request.or # NULL) = TextActive(args)
     /\ (request.category # NULL) = CategoryActive(args)
     /\ (request.tags # NULL) = TagsActive(args)

\* A search with all three filters and a page window that failed: still
\* one request.
C14_Witness ==
  /\ SearchDone /\ outcome = "error" /\ roundTrips = 1
  /\ TextActive(args) /\ CategoryActive(args) /\ TagsActive(args)
  /\ args.offset = Num(1)


GETpromptsDone == pc = "done" /\ op = "GET /api/prompts"

Absent(v) == v = NULL
AbsentOrEmpty(v) == v = NULL \/ v = Some(<<>>)

\* C16: GET /api/prompts searches with limit 50 when the limit parameter is
\* absent or empty, with offset 0 when offset is absent or empty, with the
\* empty query when query is absent and with no category when category is
\* absent; searchPrompts called without arguments searches with limit 50,
\* offset 0 and no filter.
C16_DefaultsApplied ==
  (IsSearch /\ pc \in {"await", "done"}) =>
     /\ op = "GET /api/prompts" =>
          /\ AbsentOrEmpty(http.limit) =>
               args.limit = Num(50) /\ request.limit = Num(50)
          /\ AbsentOrEmpty(http.offset) =>
               args.offset = Num(0) /\ request.offset = Num(0)
          /\ Absent(http.query) => args.query = <<>> /\ request.or = NULL
          /\ Absent(http.category) =>
               args.category = NULL /\ request.category = NULL
     /\ (op = "searchPrompts" /\ DOMAIN passed = {}) =>
          /\ args = [query |-> <<>>, category |-> NULL, tags |-> <<>>,
                     limit |-> Num(50), offset |-> Num(0)]
          /\ request = [selectOrdered EXCEPT !.limit = Num(50)]

\* A request with an empty limit and no other parameter: every row of the
\* table is returned, more than any limit the other calls ask for.
C16_Witness ==
  /\ GETpromptsDone /\ outcome = "answered"
  /\ http = [query |-> NULL, category |-> NULL, tags |-> NULL,
             limit |-> Some(<<>>), offset |-> NULL]
  /\ Len(table) = MaxRows /\ Len(result.value) = MaxRows
  /\ MaxRows > MaxLimit

\* No tag of the list is empty or has white space at either end.
CleanTags(tags) ==
  \A k \in 1..Len(tags) :
     /\ tags[k] # <<>>
     /\ tags[k][1] \notin Whitespace
     /\ tags[k][Len(tags[k])] \notin Whitespace

\* The parameter is absent, empty, or made of commas and white space only.
NoTagIn(v) ==
  v = NULL \/ Range(v.val) \subseteq ({","} \cup Whitespace)

\* C17: GET /api/prompts splits the tags parameter at commas, trims every
\* piece and drops the empty ones: the list passed to searchPrompts has no
\* empty and no white-space-padded tag, and an absent, empty or
\* separators-only parameter gives the empty list and no tag filter.
C17_TagsParsed ==
  (op = "GET /api/prompts" /\ pc \in {"await", "done"}) =>
     /\ CleanTags(passed.tags) /\ args.tags = passed.tags
     /\ NoTagIn(http.tags) => passed.tags = <<>> /\ request.tags = NULL
     /\ ~NoTagIn(http.tags) =>
          /\ passed.tags # <<>>
          /\ request.tags = Some([op |-> "cs", val |-> passed.tags])
          /\ \A k \in 1..Len(passed.tags) :
               Range(passed.tags[k]) \subseteq Range(http.tags.val)

\* A padded list with an empty piece is parsed to two clean tags, and the
\* search filters on them.
C17_Witness ==
  /\ GETpromptsDone /\ outcome = "answered"
  /\ http.tags = Some(S_x_y) /\ passed.tags = <<S_x, S_y>>
  /\ Len(result.value) = 2


GETstatsDone == pc = "done" /\ op = "GET /api/stats"

\* C18: in every 200 response of GET /api/stats, categories is the length
\* of categoriesList and tags the length of tagsList in the same response,
\* and total is the value getPromptCount returned.
C18_StatsCountsMatchLists ==
  (GETstatsDone /\ response.status = 200) =>
     /\ response.body.categories = Len(response.body.categoriesList)
     /\ response.body.tags = Len(response.body.tagsList)
     /\ response.body.total = stats["getPromptCount"].result.value
     /\ response.body.categoriesList = stats["getCategories"].result.value
     /\ response.body.tagsList = stats["getTags"].result.value

\* Three rows with two categories and three tags between them.
C18_Witness ==
  /\ GETstatsDone /\ response.status = 200
  /\ response.body.total = 3
  /\ response.body.categories = 2 /\ response.body.categoriesList = <<S_Art, S_art>>
  /\ response.body.tags = 3 /\ response.body.tagsList = <<S_x, S_y, S_z>>

\* C19: when the handler fails, GET /api/stats responds 500 with the body
\* {error, total: 0, categories: 0, tags: 0} and GET /api/prompts responds
\* 500 with an error message and prompts = []; a handler that does not fail
\* responds 200.
C19_HandlerFailureIs500 ==
  /\ (pc = "failed" /\ op = "GET /api/stats") =>
        response = [status |-> 500,
                    body |-> [error |-> "Failed to fetch statistics",
                              total |-> 0, categories |-> 0, tags |-> 0]]
  /\ (pc = "failed" /\ op = "GET /api/prompts") =>
        response = [status |-> 500,
                    body |-> [error |-> "Failed to fetch prompts",
                              prompts |-> <<>>]]
  /\ (pc = "done" /\ op \in {"GET /api/stats", "GET /api/prompts"}) =>
        response.status = 200

\* The handler of GET /api/stats has failed on a table that is not empty.
C19_Witness ==
  /\ pc = "failed" /\ op = "GET /api/stats" /\ response.status = 500
  /\ Len(table) = MaxRows

\* The round trip of query function f of GET /api/stats failed.
StatsFailed(f) == stats[f].outcome \in {"error", "nothing", "thrown"}

\* C20: whichever of the three round trips of a GET /api/stats request
\* fail, the response is 200; it holds 0 or the empty list for each function
\* whose round trip failed and the values of the Data Store for the others.
\* A failure of the Data Store never gives a 500 response.
C20_StatsDegradeIndependently ==
  GETstatsDone =>
     /\ response.status = 200
     /\ response.body.total
          = (IF StatsFailed("getPromptCount") THEN 0 ELSE Len(table))
     /\ IF StatsFailed("getCategories")
          THEN response.body.categoriesList = <<>>
          ELSE /\ Range(response.body.categoriesList) = CategoriesPresent
               /\ Ascending(response.body.categoriesList)
     /\ IF StatsFailed("getTags")
          THEN response.body.tagsList = <<>>
          ELSE /\ Range(response.body.tagsList) = TagsPresent
               /\ Ascending(response.body.tagsList)

\* The count and the categories fail, in two different ways; the tags of
\* the three rows are reported.
C20_Witness ==
  /\ GETstatsDone /\ Len(table) = MaxRows
  /\ stats["getPromptCount"].outcome = "thrown"
  /\ stats["getCategories"].outcome = "error"
  /\ stats["getTags"].outcome = "answered"
  /\ response.status = 200
  /\ response.body.total = 0 /\ response.body.categoriesList = <<>>
  /\ response.body.tagsList = <<S_x, S_y, S_z>>


\* The rows the table had when the round trip of query function f ended:
\* rows are only added, at the end.
TableSeenBy(f) == SubSeq(table, 1, stats[f].seen)

CategoriesOf(tbl) ==
  {tbl[i].category.val : i \in {k \in 1..Len(tbl) : tbl[k].category # NULL}}

TagsOf(tbl) ==
  UNION {Range(tbl[i].tags.val) : i \in {k \in 1..Len(tbl) : tbl[k].tags # NULL}}

\* C21: the three reads of GET /api/stats are separate requests: each
\* value of the response describes the table as it was when its own request
\* was answered, so with rows inserted in between they describe different
\* tables, and when no row was inserted between the three answers they
\* describe one and the same table.
C21_EachReadHasItsOwnSnapshot ==
  (GETstatsDone /\ \A f \in StatsCalls : stats[f].outcome = "answered") =>
     /\ roundTrips = 3
     /\ response.body.total = Len(TableSeenBy("getPromptCount"))
     /\ Range(response.body.categoriesList)
          = CategoriesOf(TableSeenBy("getCategories"))
     /\ Range(response.body.tagsList) = TagsOf(TableSeenBy("getTags"))
     /\ (\A f, g \in StatsCalls : stats[f].seen = stats[g].seen) =>
          \E n \in 0..Len(table) :
             /\ response.body.total = n
             /\ Range(response.body.categoriesList)
                  = CategoriesOf(SubSeq(table, 1, n))
             /\ Range(response.body.tagsList) = TagsOf(SubSeq(table, 1, n))

\* A response that reports no record at all, two categories and three tags:
\* the count was answered before the rows were inserted.
C21_Witness ==
  /\ GETstatsDone /\ \A f \in StatsCalls : stats[f].outcome = "answered"
  /\ response.body.total = 0
  /\ response.body.categories = 2
  /\ response.body.tags = 3


\* C22: the core is read-only: every step of a call of searchPrompts,
\* getPromptById, getCategories, getTags, getPromptCount, testConnection,
\* GET /api/prompts or GET /api/stats (its start, the end of its round trip
\* by an answer, an error value or an exception, its response, its return)
\* leaves the rows of the table as they were; only the import changes them.
C22_CoreIsReadOnly ==
  [][(pc # "idle" \/ pc' # "idle") => table' = table]_vars

\* A failed connection test on a full table, which is still full.
C22_Witness ==
  /\ pc = "done" /\ op = "testConnection" /\ outcome = "error"
  /\ result.value = FALSE
  /\ Len(table) = MaxRows

(***************************************************************************)
(* The page.                                                               *)
(***************************************************************************)
\* A fetchPrompts call has finished and none is in flight.
PageSettled == page.last # NULL /\ page.fetches = <<>>

\* What the page shows in the place of the list.
Shown == PromptList(page.prompts, page.loading)

\* C23: the page has no error state for a search. After a fetchPrompts call
\* has finished by any path but a successful answer (the Data Store error
\* searchPrompts swallows, the 500 response, a failed network, a body that
\* is not JSON or carries no prompts) the list is the empty array; and an
\* empty list with loading false is rendered as "No prompts found", whatever
\* the path.
C23_SearchNeverShowsAnError ==
  /\ page.last # NULL /\ page.last.path # "answered" => page.prompts = <<>>
  /\ Len(page.prompts) \in 0..Len(table)
  /\ page.prompts = <<>> /\ ~page.loading => Shown = "No prompts found"
  /\ Shown \in {"Loading prompts...", "No prompts found", "Found"}

\* A search on a loaded table fails with a 500 response, and the page reads
\* "No prompts found".
C23_Witness ==
  /\ PageSettled /\ page.last.path = "handler threw"
  /\ Len(table) = 2
  /\ Shown = "No prompts found"

\* The query string of the search handleClear asks for.
ClearedUrl == queryParams([query |-> <<>>, category |-> <<>>])

\* The list is every row of the table, the most recent first.
UnfilteredNewestFirst(prompts) ==
  /\ Len(prompts) = Len(table)
  /\ \A k \in 1..Len(prompts) :
        /\ prompts[k] = table[prompts[k].id]
        /\ Cardinality({id \in 1..Len(table) :
                          table[id].created_at > prompts[k].created_at}) = k - 1

\* The call started last is no longer in flight.
NewestReturned == \A i \in 1..Len(page.fetches) : ~page.fetches[i].newest

NewestSearch ==
  IF page.event = "none" THEN queryParams(NoArguments)
  ELSE queryParams([query |-> page.query, category |-> page.category])

\* The lists the search started last can have put on display: the answer of
\* GET /api/prompts to it, or the empty list of a failure.
NewestSearchResults ==
  {<<>>, ServerResponse(table, NewestSearch, "answered").body.prompts}

\* C28: once no fetchPrompts call is in flight, the list on display is the
\* result of the search started last, in whatever order the responses
\* arrived.
C28_ListIsOfNewestSearch ==
  (PageSettled /\ page.event # "typed") => page.prompts \in NewestSearchResults

\* A response has arrived for a fetchPrompts call, its body is being read.
SomeResponseArrived ==
  \E i \in 1..Len(page.fetches) : page.fetches[i].stage = "json"

\* C29: loading becomes true in the step that starts a fetchPrompts call and
\* false in the step that ends one, by whichever path; when no call is in
\* flight loading is false; the list reads "Loading prompts..." exactly
\* while loading is true; and a call whose response has arrived is followed
\* by a state where loading is false.
C29_LoadingFollowsFetches ==
  /\ [](page.fetches = <<>> => ~page.loading)
  /\ [](Shown = "Loading prompts..." <=> page.loading)
  /\ [][/\ Len(page'.fetches) > Len(page.fetches) => page'.loading
        /\ Len(page'.fetches) < Len(page.fetches) => ~page'.loading]_vars
  /\ (SomeResponseArrived ~> ~page.loading)

\* A second search is in flight after the first call has ended: loading is
\* true again and the list reads "Loading prompts...".
C29_Witness ==
  /\ page.last # NULL /\ page.last.path = "not JSON"
  /\ Len(page.fetches) = 1 /\ page.fetches[1].stage = "json"
  /\ page.loading /\ Shown = "Loading prompts..."

(***************************************************************************)
(* Requests served side by side.                                           *)
(***************************************************************************)
\* The response of the route to the request answered last, had it been the
\* only request, with the same outcome of its round trips.
ResponseAlone ==
  IF server.sent.route = "GET /api/prompts"
    THEN GETpromptsOn(table, server.sent.params, server.sent.hows)
    ELSE GETstatsOn(table, server.sent.hows)

\* C25: requests do not interact. On a table that does not change, the
\* response to a GET /api/prompts or GET /api/stats request served next to
\* others is the response the request gets when it is served alone; and the
\* client lib/db.js has created when it was loaded is the one thing the
\* handlers share, which no request changes.
C25_RequestsDoNotInteract ==
  /\ server.sent # NULL => server.sent.response = ResponseAlone
  /\ (server.handlers # <<>> \/ server.sent # NULL) =>
        \E env \in Environments :
           /\ ~dbModule(env).threw
           /\ server.supabase = dbModule(env)

\* The filtered search came in first and is answered last, after the
\* unfiltered search that came in behind it: one row of two.
C25_Witness ==
  /\ Len(table) = 2
  /\ server.sent # NULL /\ server.sent.route = "GET /api/prompts"
  /\ server.sent.params.query = Some(S_sp_ai_sp)
  /\ server.sent.hows = "answered"
  /\ Len(server.sent.response.body.prompts) = 1
  /\ Len(server.handlers) = MaxInFlight - 1

(***************************************************************************)
(* Paging as asked for.                                                    *)
(***************************************************************************)
\* The number a limit or offset parameter of the requests made here
\* writes down.
Written(text) ==
  CASE text = S_0 -> Num(0)
    [] text = S_1 -> Num(1)
    [] text = S_2 -> Num(2)
    [] text = S_99 -> Num(99)
    [] text = S_minus1 -> Num(0 - 1)
    [] text = S_x -> NaN

TextConditions(q) ==
  <<[col |-> S_content, op |-> S_fts, val |-> q],
    [col |-> S_title, op |-> S_ilike, val |-> <<"%">> \o q \o <<"%">>]>>

\* C27: the query is data. For every query that is not blank, the text
\* condition of the request is read by the Data Store as the two
\* conditions on content and title with the trimmed query as their value,
\* whatever characters the query has.
C27_QueryIsData ==
  (IsSearch /\ pc \in {"await", "done"} /\ TextActive(args)) =>
     /\ request.or # NULL
     /\ ParseLogicTree(request.or.val) = Some(TextConditions(trim(args.query)))

(***************************************************************************)
(* The extraction scripts.                                                 *)
(***************************************************************************)
\* The first n pages of the database as the script in progress keeps them.
FirstPages(n) ==
  [k \in 1..n |->
     IF notion.script = "notion-extract-ids"
       THEN SelectSeq(notion.database[k].id, LAMBDA c : c # "-")
       ELSE notion.database[k]]

\* C30: the loops handle pagination completely. What a script has
\* accumulated is a beginning of the database, every page once and in the
\* order Notion returns them (ids without their hyphens); the query in
\* flight asks for the pages right after those, with no cursor the first
\* time only; the loop goes on exactly while more pages follow; the output
\* file is there only when the run is done, and then it holds every page
\* of the database; a run that failed has written no file; and a run that
\* waits for Notion ends.
C30_PaginationIsComplete ==
  /\ [](notion.pc \in {"query", "done", "exit 1"} /\ notion.script # "none" =>
         /\ Len(notion.all) <= Len(notion.database)
         /\ notion.all = FirstPages(Len(notion.all))
         /\ notion.pc = "query" =>
              /\ notion.hasMore
              /\ notion.startCursor = NULL <=> notion.all = <<>>
              /\ notion.startCursor # NULL =>
                   notion.startCursor.val = Len(notion.all)
         /\ notion.pc = "done" =>
              /\ ~notion.hasMore
              /\ Len(notion.all) = Len(notion.database)
              /\ notion.file = Some(outputOf(notion.script,
                                             FirstPages(Len(notion.database)))))
  /\ [](notion.file # NULL => notion.pc = "done")
  /\ (notion.pc \in {"schema", "query"} ~> notion.pc \in {"done", "exit 1"})

\* notion-extract-ids has fetched a database of MaxPages pages, which takes
\* more than one response, and written the ids, hyphens removed, one to a
\* line.
C30_Witness ==
  /\ notion.pc = "done" /\ notion.script = "notion-extract-ids"
  /\ Len(notion.database) = MaxPages
  /\ notion.database[1].id = <<"a", "-", "b", "-", "c">>
  /\ notion.all[1] = <<"a", "b", "c">>
  /\ notion.startCursor = NULL
  /\ Len(notion.file.val) = 6 + MaxPages

====
